---- MODULE Spec2Model ----
(***************************************************************************)
(* Binding-state tracking of the Rendering library: the diff between the  *)
(* current and the target binding snapshot (BindingState::makeDiff), the  *)
(* apply step that issues the driver calls (BindingState::apply) and the  *)
(* context operations that request bindings and reconcile them.           *)
(***************************************************************************)
EXTENDS Integers, Sequences, FiniteSets, TLC

\* ------------------------------------------------------------------ bounds
\* buffer locations 0 .. MaxLoc-1 are requested (all inside the mask width)
MaxLoc == 2
\* texture units 0 .. MaxTexUnit-1 and image units 0 .. MaxImgUnit-1
MaxTexUnit == 2
MaxImgUnit == 2
\* number of bind requests in one run
MaxRequests == 2
\* number of external moves/resizes of a buffer in one run
MaxResizes == 1
\* number of push/pop/set operations on the state stacks in one run
MaxStackOps == 3
\* depth a state stack is filled to
MaxDepth == 2
\* number of buffer bindings requested before the first reconciliation
MaxPreload == 2
\* number of (target, location) pairs packed into keys in one run
MaxKeys == 2
\* the largest loop limit (mask width or maximum binding count) of apply
MaxLimit == 256
\* number of compile() calls on one shader object
MaxCompiles == 3

\* accessors made over the life of the vertex data
MaxAccessors == 2

\* changes of the uploaded status
MaxStatusChanges == 2

\* ------------------------------------------------------------- GL targets
GL_SHADER_STORAGE_BUFFER == "GL_SHADER_STORAGE_BUFFER"
GL_UNIFORM_BUFFER == "GL_UNIFORM_BUFFER"
GL_ATOMIC_COUNTER_BUFFER == "GL_ATOMIC_COUNTER_BUFFER"
GL_TRANSFORM_FEEDBACK_BUFFER == "GL_TRANSFORM_FEEDBACK_BUFFER"
GL_ARRAY_BUFFER == "GL_ARRAY_BUFFER"
GL_COPY_READ_BUFFER == "GL_COPY_READ_BUFFER"
GL_COPY_WRITE_BUFFER == "GL_COPY_WRITE_BUFFER"
GL_DISPATCH_INDIRECT_BUFFER == "GL_DISPATCH_INDIRECT_BUFFER"
GL_DRAW_INDIRECT_BUFFER == "GL_DRAW_INDIRECT_BUFFER"
GL_ELEMENT_ARRAY_BUFFER == "GL_ELEMENT_ARRAY_BUFFER"
GL_PIXEL_PACK_BUFFER == "GL_PIXEL_PACK_BUFFER"
GL_PIXEL_UNPACK_BUFFER == "GL_PIXEL_UNPACK_BUFFER"
GL_QUERY_BUFFER == "GL_QUERY_BUFFER"
GL_TEXTURE_BUFFER == "GL_TEXTURE_BUFFER"
\* the value getBufferTargetFromBit returns for an unknown bit (0)
GL_NONE == "GL_NONE"

IndexedTargets ==
  {GL_SHADER_STORAGE_BUFFER, GL_UNIFORM_BUFFER, GL_ATOMIC_COUNTER_BUFFER,
   GL_TRANSFORM_FEEDBACK_BUFFER}

\* the index getBufferTargetBit gives an unrecognised target
UnknownTargetBit == 10

\* the width of the mask of the other buffer targets: a bit for each of the
\* ten recognised targets and the last one, which apply skips, for the rest
OtherMaskWidth == UnknownTargetBit + 1

\* getBufferTargetBit whose default branch returns 0, the bit of
\* GL_ARRAY_BUFFER
getBufferTargetBit_DefaultZero(target) ==
  CASE target = GL_ARRAY_BUFFER -> 0
    [] target = GL_COPY_READ_BUFFER -> 1
    [] target = GL_COPY_WRITE_BUFFER -> 2
    [] target = GL_DISPATCH_INDIRECT_BUFFER -> 3
    [] target = GL_DRAW_INDIRECT_BUFFER -> 4
    [] target = GL_ELEMENT_ARRAY_BUFFER -> 5
    [] target = GL_PIXEL_PACK_BUFFER -> 6
    [] target = GL_PIXEL_UNPACK_BUFFER -> 7
    [] target = GL_QUERY_BUFFER -> 8
    [] target = GL_TEXTURE_BUFFER -> 9
    [] OTHER -> 0

getBufferTargetBit(target) ==
  CASE target = GL_ARRAY_BUFFER -> 0
    [] target = GL_COPY_READ_BUFFER -> 1
    [] target = GL_COPY_WRITE_BUFFER -> 2
    [] target = GL_DISPATCH_INDIRECT_BUFFER -> 3
    [] target = GL_DRAW_INDIRECT_BUFFER -> 4
    [] target = GL_ELEMENT_ARRAY_BUFFER -> 5
    [] target = GL_PIXEL_PACK_BUFFER -> 6
    [] target = GL_PIXEL_UNPACK_BUFFER -> 7
    [] target = GL_QUERY_BUFFER -> 8
    [] target = GL_TEXTURE_BUFFER -> 9
    [] OTHER -> UnknownTargetBit

\* getBufferTargetFromBit with the cases of bit 0 and bit 5 exchanged
getBufferTargetFromBit_Exchanged(bit) ==
  CASE bit = 0 -> GL_ELEMENT_ARRAY_BUFFER
    [] bit = 1 -> GL_COPY_READ_BUFFER
    [] bit = 2 -> GL_COPY_WRITE_BUFFER
    [] bit = 3 -> GL_DISPATCH_INDIRECT_BUFFER
    [] bit = 4 -> GL_DRAW_INDIRECT_BUFFER
    [] bit = 5 -> GL_ARRAY_BUFFER
    [] bit = 6 -> GL_PIXEL_PACK_BUFFER
    [] bit = 7 -> GL_PIXEL_UNPACK_BUFFER
    [] bit = 8 -> GL_QUERY_BUFFER
    [] bit = 9 -> GL_TEXTURE_BUFFER
    [] OTHER -> GL_NONE

getBufferTargetFromBit(bit) ==
  CASE bit = 0 -> GL_ARRAY_BUFFER
    [] bit = 1 -> GL_COPY_READ_BUFFER
    [] bit = 2 -> GL_COPY_WRITE_BUFFER
    [] bit = 3 -> GL_DISPATCH_INDIRECT_BUFFER
    [] bit = 4 -> GL_DRAW_INDIRECT_BUFFER
    [] bit = 5 -> GL_ELEMENT_ARRAY_BUFFER
    [] bit = 6 -> GL_PIXEL_PACK_BUFFER
    [] bit = 7 -> GL_PIXEL_UNPACK_BUFFER
    [] bit = 8 -> GL_QUERY_BUFFER
    [] bit = 9 -> GL_TEXTURE_BUFFER
    [] OTHER -> GL_NONE

\* ------------------------------------------------------- resource handles
NULL == "null"
BufferHandles == {"A", "B"}
TextureHandles == {"T"}
\* the extents (offset, size) a buffer can have; a resize moves between them
Extents == {<<0, 1>>, <<0, 2>>, <<1, 1>>}
InitialExtent == <<0, 1>>

\* targets and locations the bind requests are drawn from
RequestTargets ==
  {GL_SHADER_STORAGE_BUFFER, GL_UNIFORM_BUFFER, GL_ARRAY_BUFFER,
   GL_ELEMENT_ARRAY_BUFFER}
Locations == 0 .. (MaxLoc - 1)
TexUnits == 0 .. (MaxTexUnit - 1)
ImgUnits == 0 .. (MaxImgUnit - 1)

\* ------------------------------------------------------------ binding key
\* the (target, location) pair of the key union
BufferKey(target, location) == <<target, location>>

\* the key union of bindOrRemoveBuffer as the bytes it occupies: the struct
\* of two uint32_t, target at offset 0 and location at offset 4, laid over
\* the uint64_t key. A key is its 8 bytes; `lay` is the byte order of the
\* build ("little" or "big").
WordBytes == 4

\* the bytes of a uint32_t, lowest address first
WordOf(x, lay) ==
  LET le == [i \in 1 .. WordBytes |-> (x \div (256 ^ (i - 1))) % 256]
  IN IF lay = "little" THEN le ELSE [i \in 1 .. WordBytes |-> le[WordBytes + 1 - i]]

\* the uint32_t that the bytes b hold
WordValue(b, lay) ==
  LET le == IF lay = "little" THEN b ELSE [i \in 1 .. WordBytes |-> b[WordBytes + 1 - i]]
  IN le[1] + 256 * le[2] + 65536 * le[3] + 16777216 * le[4]

\* a union of the three members without the inner struct: target and
\* location share offset 0, the upper half of the key stays zero
bufferKey_NoStruct(target, location, lay) ==
  WordOf(location, lay) \o [i \in 1 .. WordBytes |-> 0]

\* bufferKey.key after bufferKey.target and bufferKey.location are written
bufferKey(target, location, lay) == WordOf(target, lay) \o WordOf(location, lay)

\* bufferKey.target and bufferKey.location read back from a key
bufferKeyFields(key, lay) ==
  <<WordValue(SubSeq(key, 1, WordBytes), lay),
    WordValue(SubSeq(key, WordBytes + 1, 2 * WordBytes), lay)>>

\* the uint32_t values targets and locations are drawn from: 0, 1, byte
\* boundaries, GL_ARRAY_BUFFER (0x8892), GL_SHADER_STORAGE_BUFFER (0x90D2)
\* and the largest value below 2^31
KeyWords == {0, 1, 255, 256, 65536, 34962, 37074, 2147483647}

\* ------------------------------------------------------ snapshot contents
BufferBinding(buffer, target, location, offset, size) ==
  [buffer |-> buffer, target |-> target, location |-> location,
   offset |-> offset, size |-> size]

ImageBindParameters(texture, level, layer, multiLayer, read, write) ==
  [texture |-> texture, level |-> level, layer |-> layer,
   multiLayer |-> multiLayer, read |-> read, write |-> write]

DefaultImage == ImageBindParameters(NULL, 0, 0, FALSE, TRUE, TRUE)

\* the image parameters the requests are drawn from
RequestImages ==
  {ImageBindParameters("T", 0, 0, FALSE, TRUE, TRUE),
   ImageBindParameters("T", 1, 0, FALSE, TRUE, FALSE),
   DefaultImage}

EmptyMap == [x \in {} |-> NULL]
EmptyState == [buffers |-> EmptyMap, textures |-> EmptyMap, images |-> EmptyMap]

\* absent keys read as an unbound (null) binding
getBufferBinding(state, key) ==
  IF key \in DOMAIN state.buffers THEN state.buffers[key]
  ELSE BufferBinding(NULL, key[1], key[2], 0, 0)

getTexture(state, unit) ==
  IF unit \in DOMAIN state.textures THEN state.textures[unit] ELSE NULL

getImage(state, unit) ==
  IF unit \in DOMAIN state.images THEN state.images[unit] ELSE DefaultImage

\* BufferBinding::operator!= : the handles differ (the key is the same by
\* lookup, the cached extent takes no part)
BufferBindingNeq(a, b) == a.buffer # b.buffer

\* ImageBindParameters::operator!= : any field differs
ImageNeq(a, b) == a # b

\* map update helpers (unordered_map operator[] and erase)
MapSet(m, k, v) == [x \in (DOMAIN m) \cup {k} |-> IF x = k THEN v ELSE m[x]]
MapErase(m, k) == [x \in (DOMAIN m) \ {k} |-> m[x]]


\* ------------------------------------------------------------ change mask
\* a bitset is the set of its set bit positions
EmptyDiff ==
  [ssbos |-> {}, ubos |-> {}, acbos |-> {}, tfbos |-> {}, other |-> {},
   textures |-> {}, images |-> {}]

\* std::bitset::set(pos, value): the bit becomes value
BitSet(mask, pos, value) == IF value THEN mask \cup {pos} ELSE mask \ {pos}

\* std::bitset::test(pos)
BitTest(mask, pos) == pos \in mask

\* offset/size cached in the binding differ from the buffer's live ones
isChanged(e, live) ==
  /\ e.buffer # NULL
  /\ (e.offset # live[e.buffer][1] \/ e.size # live[e.buffer][2])

\* one iteration of a buffer loop of makeDiff: entry e of one snapshot is
\* compared with the other snapshot's binding at the same key
DiffBufferEntry(diff, e, otherState, forced, live) ==
  LET key == BufferKey(e.target, e.location)
      value == forced \/ isChanged(e, live)
                 \/ BufferBindingNeq(getBufferBinding(otherState, key), e)
  IN CASE e.target = GL_SHADER_STORAGE_BUFFER ->
            [diff EXCEPT !.ssbos = BitSet(@, e.location, value)]
       [] e.target = GL_UNIFORM_BUFFER ->
            [diff EXCEPT !.ubos = BitSet(@, e.location, value)]
       [] e.target = GL_ATOMIC_COUNTER_BUFFER ->
            [diff EXCEPT !.acbos = BitSet(@, e.location, value)]
       [] e.target = GL_TRANSFORM_FEEDBACK_BUFFER ->
            [diff EXCEPT !.tfbos = BitSet(@, e.location, value)]
       [] OTHER ->
            [diff EXCEPT !.other = BitSet(@, getBufferTargetBit(e.target), value)]

\* a buffer loop of makeDiff over the entries of `state` in the order `order`
\* (a sequence of its keys: the hash map's enumeration order)
RECURSIVE ScanBuffers(_, _, _, _, _, _)
ScanBuffers(diff, order, state, otherState, forced, live) ==
  IF order = <<>> THEN diff
  ELSE ScanBuffers(
         DiffBufferEntry(diff, state.buffers[Head(order)], otherState, forced, live),
         Tail(order), state, otherState, forced, live)

\* the two texture loops: each unit has its own bit, written first from the
\* current entries and then overwritten from the target entries
ScanTextures(diff, cur, tgt, forced) ==
  LET first == {u \in DOMAIN cur.textures :
                  forced \/ getTexture(tgt, u) # cur.textures[u]}
      second == (first \ DOMAIN tgt.textures) \cup
                {u \in DOMAIN tgt.textures :
                   forced \/ getTexture(cur, u) # tgt.textures[u]}
  IN [diff EXCEPT !.textures = second]

\* image loops that compare the textures only
ScanImages_TextureOnly(diff, cur, tgt, forced) ==
  LET first == {u \in DOMAIN cur.images :
                  forced \/ getImage(tgt, u).texture # cur.images[u].texture}
      second == (first \ DOMAIN tgt.images) \cup
                {u \in DOMAIN tgt.images :
                   forced \/ getImage(cur, u).texture # tgt.images[u].texture}
  IN [diff EXCEPT !.images = second]

\* the two image loops, as the texture loops
ScanImages(diff, cur, tgt, forced) ==
  LET first == {u \in DOMAIN cur.images :
                  forced \/ ImageNeq(getImage(tgt, u), cur.images[u])}
      second == (first \ DOMAIN tgt.images) \cup
                {u \in DOMAIN tgt.images :
                   forced \/ ImageNeq(getImage(cur, u), tgt.images[u])}
  IN [diff EXCEPT !.images = second]

\* all enumeration orders of a finite set
Orders(S) ==
  {f \in [1 .. Cardinality(S) -> S] :
     \A i, j \in 1 .. Cardinality(S) : i # j => f[i] # f[j]}

\* BindingState::makeDiff, the hash maps enumerated in the orders given
makeDiff(cur, tgt, forced, live, order1, order2) ==
  LET d1 == ScanBuffers(EmptyDiff, order1, cur, tgt, forced, live)
      d2 == ScanBuffers(d1, order2, tgt, cur, forced, live)
      d3 == ScanTextures(d2, cur, tgt, forced)
  IN ScanImages(d3, cur, tgt, forced)

\* a makeDiff that, where it finds a cached extent stale, refreshes it in
\* the snapshot it was handed
makeDiffRun_Refresh(cur, tgt, forced, live, order1, order2) ==
  [diff |-> makeDiff(cur, tgt, forced, live, order1, order2),
   current |-> cur,
   target |-> [tgt EXCEPT !.buffers =
      [k \in DOMAIN tgt.buffers |->
         IF isChanged(tgt.buffers[k], live)
         THEN [tgt.buffers[k] EXCEPT !.offset = live[tgt.buffers[k].buffer][1],
                                     !.size = live[tgt.buffers[k].buffer][2]]
         ELSE tgt.buffers[k]]],
   calls |-> <<>>]

\* a run of makeDiff, a const member function with a const argument: the
\* mask it returns, the two snapshots as it leaves them and the driver
\* calls it issues
makeDiffRun(cur, tgt, forced, live, order1, order2) ==
  [diff |-> makeDiff(cur, tgt, forced, live, order1, order2),
   current |-> cur, target |-> tgt, calls |-> <<>>]

\* std::bitset::set(pos, value) on a mask of `width` bits throws
\* std::out_of_range when pos is not below the width
BitSetRaises(pos, width) == pos >= width

\* the buffer entries in the order the two buffer loops of makeDiff visit them
BufferScan(cur, tgt, order1, order2) ==
  [i \in 1 .. Len(order1) |-> cur.buffers[order1[i]]]
    \o [i \in 1 .. Len(order2) |-> tgt.buffers[order2[i]]]

\* the iteration for entry e writes a bit outside its mask
EntryRaises(e) ==
  IF e.target \in IndexedTargets THEN BitSetRaises(e.location, MaxLoc)
  ELSE BitSetRaises(getBufferTargetBit(e.target), OtherMaskWidth)

\* the iteration for entry e has getBufferTargetBit emit its warning
EntryWarns(e) ==
  e.target \notin IndexedTargets /\ getBufferTargetBit(e.target) = UnknownTargetBit

\* how makeDiff ends: raised when some set() throws (the exception leaves
\* makeDiff, which catches nothing), warned when getBufferTargetBit has
\* emitted its warning before that
makeDiffOutcome(cur, tgt, order1, order2) ==
  LET scan == BufferScan(cur, tgt, order1, order2)
      raisers == {i \in 1 .. Len(scan) : EntryRaises(scan[i])}
      stop == IF raisers = {} THEN Len(scan) + 1
              ELSE CHOOSE i \in raisers : \A j \in raisers : i <= j
  IN [raised |->
        \/ raisers # {}
        \/ \E u \in (DOMAIN cur.textures) \cup (DOMAIN tgt.textures) :
              BitSetRaises(u, MaxTexUnit)
        \/ \E u \in (DOMAIN cur.images) \cup (DOMAIN tgt.images) :
              BitSetRaises(u, MaxImgUnit),
      warned |-> \E i \in 1 .. (stop - 1) : EntryWarns(scan[i])]

\* ------------------------------------------------------------ driver calls
\* a driver call: op is "bind" or "unbind", cat the category, (target, slot)
\* the binding point, res the handle, ext the bound (offset, size), img the
\* image parameters
Call(op, cat, target, slot, res, ext, img) ==
  [op |-> op, cat |-> cat, target |-> target, slot |-> slot, res |-> res,
   ext |-> ext, img |-> img]

\* getImageAccess
getImageAccess(param) ==
  IF ~param.read THEN "GL_WRITE_ONLY"
  ELSE IF ~param.write THEN "GL_READ_ONLY" ELSE "GL_READ_WRITE"

\* bindOrRemoveBuffer without lines 81-82: the cached extent is not refreshed
bindOrRemoveBuffer_NoRefresh(st, target, location, live) ==
  LET key == BufferKey(target, location)
      bindings == st.snap.buffers
  IN IF key \in DOMAIN bindings
     THEN IF bindings[key].buffer # NULL
          THEN LET b == bindings[key].buffer
               IN [st EXCEPT !.calls = Append(@,
                      Call("bind", "buffer", target, location, b, live[b],
                           DefaultImage))]
          ELSE [snap |-> [st.snap EXCEPT !.buffers = MapErase(bindings, key)],
                calls |-> Append(st.calls,
                   Call("unbind", "buffer", target, location, NULL, <<0, 0>>,
                        DefaultImage))]
     ELSE st

\* bindOrRemoveBuffer on st = [snap, calls]: the entry at (target, location),
\* when there is one, is bound with its cached extent refreshed, or, when its
\* handle is null, erased and unbound
bindOrRemoveBuffer(st, target, location, live) ==
  LET key == BufferKey(target, location)
      bindings == st.snap.buffers
  IN IF key \in DOMAIN bindings
     THEN IF bindings[key].buffer # NULL
          THEN LET b == bindings[key].buffer
               IN [snap |-> [st.snap EXCEPT !.buffers =
                      MapSet(bindings, key,
                             [bindings[key] EXCEPT !.offset = live[b][1],
                                                   !.size = live[b][2]])],
                   calls |-> Append(st.calls,
                      Call("bind", "buffer", target, location, b, live[b],
                           DefaultImage))]
          ELSE [snap |-> [st.snap EXCEPT !.buffers = MapErase(bindings, key)],
                calls |-> Append(st.calls,
                   Call("unbind", "buffer", target, location, NULL, <<0, 0>>,
                        DefaultImage))]
     ELSE st

\* an indexed buffer loop that does not test the mask bit
RECURSIVE ApplyIndexed_NoTest(_, _, _, _, _, _)
ApplyIndexed_NoTest(st, mask, target, i, n, live) ==
  IF i >= n THEN st
  ELSE ApplyIndexed_NoTest(bindOrRemoveBuffer(st, target, i, live),
                           mask, target, i + 1, n, live)

\* one of the indexed buffer loops of apply: bits i .. n-1 of mask, ascending
RECURSIVE ApplyIndexed(_, _, _, _, _, _)
ApplyIndexed(st, mask, target, i, n, live) ==
  IF i >= n THEN st
  ELSE ApplyIndexed(
         IF BitTest(mask, i) THEN bindOrRemoveBuffer(st, target, i, live) ELSE st,
         mask, target, i + 1, n, live)

\* the loop over the other buffer targets: bits i .. n-1, each bound at
\* location 0 of the target the bit stands for
RECURSIVE ApplyOther(_, _, _, _, _)
ApplyOther(st, mask, i, n, live) ==
  IF i >= n THEN st
  ELSE ApplyOther(
         IF BitTest(mask, i)
         THEN bindOrRemoveBuffer(st, getBufferTargetFromBit(i), 0, live)
         ELSE st,
         mask, i + 1, n, live)

\* the body of the texture loop without the isNotNull test: the entry is
\* bound whatever its handle
ApplyTextureUnit_NoCheck(st, i) ==
  LET textures == st.snap.textures
  IN IF i \in DOMAIN textures
     THEN [st EXCEPT !.calls = Append(@,
             Call("bind", "texture", "-", i, textures[i], <<0, 0>>,
                  DefaultImage))]
     ELSE st

\* the body of the texture loop for unit i
ApplyTextureUnit(st, i) ==
  LET textures == st.snap.textures
  IN IF i \in DOMAIN textures
     THEN IF textures[i] # NULL
          THEN [st EXCEPT !.calls = Append(@,
                  Call("bind", "texture", "-", i, textures[i], <<0, 0>>,
                       DefaultImage))]
          ELSE [snap |-> [st.snap EXCEPT !.textures = MapErase(textures, i)],
                calls |-> Append(st.calls,
                   Call("unbind", "texture", "-", i, NULL, <<0, 0>>,
                        DefaultImage))]
     ELSE st

RECURSIVE ApplyTextures(_, _, _, _)
ApplyTextures(st, mask, i, n) ==
  IF i >= n THEN st
  ELSE ApplyTextures(IF BitTest(mask, i) THEN ApplyTextureUnit(st, i) ELSE st,
                     mask, i + 1, n)

\* the body of the image loop for unit i
ApplyImageUnit(st, i) ==
  LET images == st.snap.images
  IN IF i \in DOMAIN images
     THEN IF images[i].texture # NULL
          THEN [st EXCEPT !.calls = Append(@,
                  Call("bind", "image", getImageAccess(images[i]), i,
                       images[i].texture, <<0, 0>>, images[i]))]
          ELSE [snap |-> [st.snap EXCEPT !.images = MapErase(images, i)],
                calls |-> Append(st.calls,
                   Call("unbind", "image", "GL_READ_WRITE", i, NULL, <<0, 0>>,
                        DefaultImage))]
     ELSE st

RECURSIVE ApplyImages(_, _, _, _)
ApplyImages(st, mask, i, n) ==
  IF i >= n THEN st
  ELSE ApplyImages(IF BitTest(mask, i) THEN ApplyImageUnit(st, i) ELSE st,
                   mask, i + 1, n)

\* GET_GL_ERROR(): the error probe, an event among the driver calls
GET_GL_ERROR == Call("probe", "error", "-", 0, NULL, <<0, 0>>, DefaultImage)

\* the events of one category block of apply without its closing probe
Batch_NoProbe(before, after, mask) ==
  SubSeq(after.calls, Len(before.calls) + 1, Len(after.calls))

\* the events of one category block of apply: nothing when no bit of the
\* mask is set (any() is false), else the calls its loop issued, which took
\* the calls from `before` to `after`, and then the probe
Batch(before, after, mask) ==
  IF mask = {} THEN <<>>
  ELSE SubSeq(after.calls, Len(before.calls) + 1, Len(after.calls))
         \o <<GET_GL_ERROR>>

\* apply with the image loop ahead of the texture loop
apply_ImagesFirst(snap, diff, live) ==
  LET s0 == [snap |-> snap, calls |-> <<>>]
      s1 == ApplyIndexed(s0, diff.ssbos, GL_SHADER_STORAGE_BUFFER, 0, MaxLoc, live)
      s2 == ApplyIndexed(s1, diff.ubos, GL_UNIFORM_BUFFER, 0, MaxLoc, live)
      s3 == ApplyIndexed(s2, diff.acbos, GL_ATOMIC_COUNTER_BUFFER, 0, MaxLoc, live)
      s4 == ApplyIndexed(s3, diff.tfbos, GL_TRANSFORM_FEEDBACK_BUFFER, 0, MaxLoc, live)
      s5 == ApplyOther(s4, diff.other, 0, OtherMaskWidth - 1, live)
      s6 == ApplyImages(s5, diff.images, 0, MaxImgUnit)
  IN ApplyTextures(s6, diff.textures, 0, MaxTexUnit)

\* BindingState::apply on the snapshot snap: [snap, calls], the snapshot
\* afterwards and the driver calls in the order issued
apply(snap, diff, live) ==
  LET s0 == [snap |-> snap, calls |-> <<>>]
      s1 == ApplyIndexed(s0, diff.ssbos, GL_SHADER_STORAGE_BUFFER, 0, MaxLoc, live)
      s2 == ApplyIndexed(s1, diff.ubos, GL_UNIFORM_BUFFER, 0, MaxLoc, live)
      s3 == ApplyIndexed(s2, diff.acbos, GL_ATOMIC_COUNTER_BUFFER, 0, MaxLoc, live)
      s4 == ApplyIndexed(s3, diff.tfbos, GL_TRANSFORM_FEEDBACK_BUFFER, 0, MaxLoc, live)
      s5 == ApplyOther(s4, diff.other, 0, OtherMaskWidth - 1, live)
      s6 == ApplyTextures(s5, diff.textures, 0, MaxTexUnit)
  IN ApplyImages(s6, diff.images, 0, MaxImgUnit)

\* the driver calls and error probes of BindingState::apply in the order
\* they happen
applyEvents(snap, diff, live) ==
  LET s0 == [snap |-> snap, calls |-> <<>>]
      s1 == ApplyIndexed(s0, diff.ssbos, GL_SHADER_STORAGE_BUFFER, 0, MaxLoc, live)
      s2 == ApplyIndexed(s1, diff.ubos, GL_UNIFORM_BUFFER, 0, MaxLoc, live)
      s3 == ApplyIndexed(s2, diff.acbos, GL_ATOMIC_COUNTER_BUFFER, 0, MaxLoc, live)
      s4 == ApplyIndexed(s3, diff.tfbos, GL_TRANSFORM_FEEDBACK_BUFFER, 0, MaxLoc, live)
      s5 == ApplyOther(s4, diff.other, 0, OtherMaskWidth - 1, live)
      s6 == ApplyTextures(s5, diff.textures, 0, MaxTexUnit)
      s7 == ApplyImages(s6, diff.images, 0, MaxImgUnit)
  IN <<GET_GL_ERROR>>
       \o Batch(s0, s1, diff.ssbos) \o Batch(s1, s2, diff.ubos)
       \o Batch(s2, s3, diff.acbos) \o Batch(s3, s4, diff.tfbos)
       \o Batch(s4, s5, diff.other) \o Batch(s5, s6, diff.textures)
       \o Batch(s6, s7, diff.images)

\* ----------------------------------------------------------------- driver
\* what the driver holds after one call
DriverCall(drv, c) ==
  CASE c.cat = "buffer" ->
         [drv EXCEPT !.buffers =
            IF c.op = "bind"
            THEN MapSet(@, BufferKey(c.target, c.slot), [buffer |-> c.res, ext |-> c.ext])
            ELSE MapErase(@, BufferKey(c.target, c.slot))]
    [] c.cat = "texture" ->
         [drv EXCEPT !.textures =
            IF c.op = "bind" THEN MapSet(@, c.slot, c.res) ELSE MapErase(@, c.slot)]
    [] OTHER ->
         [drv EXCEPT !.images =
            IF c.op = "bind" THEN MapSet(@, c.slot, c.img) ELSE MapErase(@, c.slot)]

RECURSIVE DriverCalls(_, _)
DriverCalls(drv, cs) ==
  IF cs = <<>> THEN drv ELSE DriverCalls(DriverCall(drv, Head(cs)), Tail(cs))

\* ------------------------------------------------------------ state stacks
\* the parameter categories that are not bindings, and their values
ParamCategories == {"blending", "viewport"}
ParamValues == {"p0", "p1"}
InitialParam == "p0"

\* the stack of a parameter category (unit 0) or of a texture or image unit
StackOf(cat, unit) == <<cat, unit>>

StackIds ==
  {StackOf(c, 0) : c \in ParamCategories}
    \cup {StackOf("texture", u) : u \in TexUnits}
    \cup {StackOf("image", u) : u \in ImgUnits}

\* the image parameters set on the image stacks
StackImages == {ImageBindParameters("T", 0, 0, FALSE, TRUE, TRUE), DefaultImage}

\* the values a stack's category takes
ValuesOf(id) ==
  CASE id[1] = "texture" -> TextureHandles \cup {NULL}
    [] id[1] = "image" -> RequestImages
    [] OTHER -> ParamValues

\* the active value of a stack's category: the requested binding of a
\* texture or image unit, the parameter value of any other category
ActiveIn(tgt, act, id) ==
  CASE id[1] = "texture" -> getTexture(tgt, id[2])
    [] id[1] = "image" -> getImage(tgt, id[2])
    [] OTHER -> act[id[1]]

\* the record of a stack operation: val its argument when a handle or a
\* parameter value, img when image parameters
StackOp(op, id, val, img) == [op |-> op, id |-> id, val |-> val, img |-> img]
NoOp == StackOp("none", StackOf("none", 0), "-", DefaultImage)
OpWith(op, id, v) ==
  IF id[1] = "image" THEN StackOp(op, id, "-", v) ELSE StackOp(op, id, v, DefaultImage)
OpValue(o) == IF o.id[1] = "image" THEN o.img ELSE o.val

\* ------------------------------------------------------------------ state
VARIABLES
  current,   \* the snapshot of the bindings believed to be in the driver
  target,    \* the snapshot of the requested bindings
  live,      \* the live (offset, size) of every buffer
  driver,    \* the bindings the driver holds
  pre,       \* the snapshots, live extents and flag the last applyChanges
             \* started from (valid only directly after an applyChanges)
  diff,      \* the mask of the last applyChanges
  calls,     \* the driver calls of the last applyChanges
  events,    \* the driver calls and error probes of the last applyChanges
  streak,    \* consecutive applyChanges(false) calls with nothing between
  nreq,      \* bind requests made so far
  nresize,   \* external resizes so far
  raised,    \* the last applyChanges ended with an exception
  warned,    \* the last operation emitted a diagnostic (WARN)
  stacks,    \* the stack of every parameter category and texture/image unit
  active,    \* the active value of every non-binding parameter category
  paramDriver, \* the value the driver holds for those categories
  last,      \* the last stack operation: its name, stack and argument
  saved,     \* per stack, the active values as they were at each open push
  nops,      \* stack operations made so far
  underflowed, \* some pop so far found its stack empty
  layout,    \* the byte order of the build
  keyed,     \* a map from packed 64-bit keys to the pair each was packed from
  pairs,     \* the (target, location) pairs packed so far
  limit,     \* the limit of the loop of apply that is running
  index,     \* its loop counter i
  seen,      \* the slot indexes its body has run for
  revisited, \* its body has run twice for some slot index
  finished,  \* the loop has ended (or none is running)
  stage,     \* ShaderObjectInfo::stage ("none" before the object is made)
  code,      \* ShaderObjectInfo::code, the GLSL source
  spirv,     \* ShaderObjectInfo::spirv, the stored SPIR-V words
  handle,    \* the ShaderModuleHandle the last compile() returned
  path,      \* the return of compile() the last call left by
  ncompile,  \* compile() calls so far
  shaderOp,  \* the last operation on the shader object
  resources, \* the resource list the last reflect() returned
  diag,      \* the warning the last compile() or reflect() emitted, if any
  uploaded,  \* MeshVertexData::isUploaded() of the vertex data
  accessors, \* the VertexAccessor objects made for the vertex data
  bufferMaps,   \* mappings of the vertex buffer that succeeded
  bufferUnmaps, \* unmap() calls on the vertex buffer
  nstatus    \* changes of the uploaded status so far

bindVars == <<current, target, live, driver, pre, diff, calls, events, streak, nreq,
              nresize, raised, warned>>
stackVars == <<stacks, active, paramDriver, last, saved, nops, underflowed>>
keyVars == <<layout, keyed, pairs>>
loopVars == <<limit, index, seen, revisited, finished>>
shaderVars == <<stage, code, spirv, handle, path, ncompile, shaderOp,
                resources, diag>>
accessorVars == <<uploaded, accessors, bufferMaps, bufferUnmaps, nstatus>>
auxVars == <<keyVars, loopVars, shaderVars, accessorVars>>
vars == <<bindVars, stackVars, auxVars>>

NoPre ==
  [valid |-> FALSE, current |-> EmptyState, target |-> EmptyState,
   forced |-> FALSE]

Init ==
  /\ current = EmptyState
  /\ target = EmptyState
  /\ live = [b \in BufferHandles |-> InitialExtent]
  /\ driver = EmptyState
  /\ pre = NoPre
  /\ diff = EmptyDiff
  /\ calls = <<>>
  /\ events = <<>>
  /\ streak = 0
  /\ nreq = 0
  /\ nresize = 0
  /\ raised = FALSE
  /\ warned = FALSE
  /\ stacks = [id \in StackIds |-> <<>>]
  /\ active = [c \in ParamCategories |-> InitialParam]
  /\ paramDriver = [c \in ParamCategories |-> InitialParam]
  /\ last = NoOp
  /\ saved = [id \in StackIds |-> <<>>]
  /\ nops = 0
  /\ underflowed = FALSE
  /\ layout = "little"
  /\ keyed = EmptyMap
  /\ pairs = {}
  /\ limit = 0
  /\ index = 0
  /\ seen = {}
  /\ revisited = FALSE
  /\ finished = TRUE
  /\ stage = "none"
  /\ code = ""
  /\ spirv = <<>>
  /\ handle = [valid |-> FALSE, module |-> <<>>]
  /\ path = "none"
  /\ ncompile = 0
  /\ shaderOp = "none"
  /\ resources = <<>>
  /\ diag = ""
  /\ uploaded = FALSE
  /\ accessors = [a \in 1 .. MaxAccessors |->
                    [state |-> "none", mapped |-> FALSE, unmapped |-> FALSE]]
  /\ bufferMaps = 0
  /\ bufferUnmaps = 0
  /\ nstatus = 0

\* what every action other than applyChanges does to the record of the last
\* applyChanges
ForgetApply ==
  /\ pre' = NoPre
  /\ diff' = EmptyDiff
  /\ calls' = <<>>
  /\ events' = <<>>
  /\ streak' = 0
  /\ raised' = FALSE

Forget == ForgetApply /\ warned' = FALSE

\* RenderingContext::bindBuffer(buffer, target, location): the target
\* snapshot's entry at the key becomes the buffer with its extent as of now
bindBuffer(buffer, tgt, location) ==
  /\ nreq < MaxRequests
  /\ target' = [target EXCEPT !.buffers =
        MapSet(@, BufferKey(tgt, location),
               BufferBinding(buffer, tgt, location, live[buffer][1], live[buffer][2]))]
  /\ nreq' = nreq + 1
  /\ Forget
  /\ UNCHANGED <<current, live, driver, nresize>>
  /\ UNCHANGED <<stackVars, auxVars>>

\* RenderingContext::unbindBuffer(target, location): a null binding
unbindBuffer(tgt, location) ==
  /\ nreq < MaxRequests
  /\ target' = [target EXCEPT !.buffers =
        MapSet(@, BufferKey(tgt, location), BufferBinding(NULL, tgt, location, 0, 0))]
  /\ nreq' = nreq + 1
  /\ Forget
  /\ UNCHANGED <<current, live, driver, nresize>>
  /\ UNCHANGED <<stackVars, auxVars>>

\* setTexture that binds in the driver at once
setTexture_Immediate(unit, texture) ==
  /\ nreq < MaxRequests
  /\ target' = [target EXCEPT !.textures = MapSet(@, unit, texture)]
  /\ driver' = [driver EXCEPT !.textures =
        IF texture = NULL THEN MapErase(@, unit) ELSE MapSet(@, unit, texture)]
  /\ nreq' = nreq + 1
  /\ Forget
  /\ UNCHANGED <<current, live, nresize>>
  /\ UNCHANGED <<stackVars, auxVars>>

\* RenderingContext::setTexture(unit, texture), texture may be null
setTexture(unit, texture) ==
  /\ nreq < MaxRequests
  /\ target' = [target EXCEPT !.textures = MapSet(@, unit, texture)]
  /\ nreq' = nreq + 1
  /\ Forget
  /\ UNCHANGED <<current, live, driver, nresize>>
  /\ UNCHANGED <<stackVars, auxVars>>

\* RenderingContext::setBoundImage(unit, iParam), its texture may be null
setBoundImage(unit, iParam) ==
  /\ nreq < MaxRequests
  /\ target' = [target EXCEPT !.images = MapSet(@, unit, iParam)]
  /\ nreq' = nreq + 1
  /\ Forget
  /\ UNCHANGED <<current, live, driver, nresize>>
  /\ UNCHANGED <<stackVars, auxVars>>

\* the owner of a buffer moves or resizes it
Resize(buffer, ext) ==
  /\ nresize < MaxResizes
  /\ live[buffer] # ext
  /\ live' = [live EXCEPT ![buffer] = ext]
  /\ nresize' = nresize + 1
  /\ Forget
  /\ UNCHANGED <<current, target, driver, nreq>>
  /\ UNCHANGED <<stackVars, auxVars>>

\* the active value of a stack's category in this state
Active(id) == ActiveIn(target, active, id)

\* SetActive that writes unit 0 whatever the unit asked for
SetActive_Unit0(id, v) ==
  CASE id[1] = "texture" ->
         /\ target' = [target EXCEPT !.textures = MapSet(@, 0, v)]
         /\ UNCHANGED <<active, paramDriver>>
    [] id[1] = "image" ->
         /\ target' = [target EXCEPT !.images = MapSet(@, 0, v)]
         /\ UNCHANGED <<active, paramDriver>>
    [] OTHER ->
         /\ active' = [active EXCEPT ![id[1]] = v]
         /\ paramDriver' = [paramDriver EXCEPT ![id[1]] = v]
         /\ UNCHANGED target

\* the active value of the stack's category becomes v: a request in the
\* target snapshot for a texture or image unit, a driver call at once for
\* any other category
SetActive(id, v) ==
  CASE id[1] = "texture" ->
         /\ target' = [target EXCEPT !.textures = MapSet(@, id[2], v)]
         /\ UNCHANGED <<active, paramDriver>>
    [] id[1] = "image" ->
         /\ target' = [target EXCEPT !.images = MapSet(@, id[2], v)]
         /\ UNCHANGED <<active, paramDriver>>
    [] OTHER ->
         /\ active' = [active EXCEPT ![id[1]] = v]
         /\ paramDriver' = [paramDriver EXCEPT ![id[1]] = v]
         /\ UNCHANGED target

\* push: a copy of the active value goes on top of the stack
push(id) ==
  /\ nops < MaxStackOps
  /\ Len(stacks[id]) < MaxDepth
  /\ stacks' = [stacks EXCEPT ![id] = Append(@, Active(id))]
  /\ saved' = [saved EXCEPT ![id] = Append(@, Active(id))]
  /\ last' = StackOp("push", id, "-", DefaultImage)
  /\ nops' = nops + 1
  /\ Forget
  /\ UNCHANGED <<current, target, live, driver, nreq, nresize>>
  /\ UNCHANGED <<active, paramDriver, underflowed, auxVars>>

\* pushAndSet that sets first and then pushes what it has just set
pushAndSet_SetFirst(id, v) ==
  /\ nops < MaxStackOps
  /\ Len(stacks[id]) < MaxDepth
  /\ stacks' = [stacks EXCEPT ![id] = Append(@, v)]
  /\ saved' = [saved EXCEPT ![id] = Append(@, Active(id))]
  /\ SetActive(id, v)
  /\ last' = OpWith("pushAndSet", id, v)
  /\ nops' = nops + 1
  /\ Forget
  /\ UNCHANGED <<current, live, driver, nreq, nresize, underflowed, auxVars>>

\* pushAndSet: the active value goes on the stack and v becomes active
pushAndSet(id, v) ==
  /\ nops < MaxStackOps
  /\ Len(stacks[id]) < MaxDepth
  /\ stacks' = [stacks EXCEPT ![id] = Append(@, Active(id))]
  /\ saved' = [saved EXCEPT ![id] = Append(@, Active(id))]
  /\ SetActive(id, v)
  /\ last' = OpWith("pushAndSet", id, v)
  /\ nops' = nops + 1
  /\ Forget
  /\ UNCHANGED <<current, live, driver, nreq, nresize, underflowed, auxVars>>

\* set on a category that is not a binding
set(id, v) ==
  /\ nops < MaxStackOps
  /\ SetActive(id, v)
  /\ last' = OpWith("set", id, v)
  /\ nops' = nops + 1
  /\ Forget
  /\ UNCHANGED <<current, live, driver, nreq, nresize, stacks, saved>>
  /\ UNCHANGED <<underflowed, auxVars>>

\* pop that discards the top of the stack without making it active
pop_KeepActive(id) ==
  /\ nops < MaxStackOps
  /\ IF stacks[id] = <<>>
     THEN /\ warned' = TRUE
          /\ underflowed' = TRUE
          /\ UNCHANGED <<stacks, saved>>
     ELSE /\ warned' = FALSE
          /\ stacks' = [stacks EXCEPT ![id] = SubSeq(@, 1, Len(@) - 1)]
          /\ saved' = [saved EXCEPT ![id] = SubSeq(@, 1, Len(@) - 1)]
          /\ UNCHANGED underflowed
  /\ last' = StackOp("pop", id, "-", DefaultImage)
  /\ nops' = nops + 1
  /\ ForgetApply
  /\ UNCHANGED <<target, active, paramDriver>>
  /\ UNCHANGED <<current, live, driver, nreq, nresize, auxVars>>

\* the value a category has before anything is set
DefaultValue(id) ==
  CASE id[1] = "texture" -> NULL
    [] id[1] = "image" -> DefaultImage
    [] OTHER -> InitialParam

\* pop that, on an empty stack, falls back to the default value silently
pop_ResetOnEmpty(id) ==
  /\ nops < MaxStackOps
  /\ IF stacks[id] = <<>>
     THEN /\ warned' = FALSE
          /\ underflowed' = TRUE
          /\ SetActive(id, DefaultValue(id))
          /\ UNCHANGED <<stacks, saved>>
     ELSE /\ warned' = FALSE
          /\ SetActive(id, stacks[id][Len(stacks[id])])
          /\ stacks' = [stacks EXCEPT ![id] = SubSeq(@, 1, Len(@) - 1)]
          /\ saved' = [saved EXCEPT ![id] = SubSeq(@, 1, Len(@) - 1)]
          /\ UNCHANGED underflowed
  /\ last' = StackOp("pop", id, "-", DefaultImage)
  /\ nops' = nops + 1
  /\ ForgetApply
  /\ UNCHANGED <<current, live, driver, nreq, nresize, auxVars>>

\* pop: the top of the stack becomes active and leaves the stack; on an
\* empty stack a warning and nothing else
pop(id) ==
  /\ nops < MaxStackOps
  /\ IF stacks[id] = <<>>
     THEN /\ warned' = TRUE
          /\ underflowed' = TRUE
          /\ UNCHANGED <<target, active, paramDriver, stacks, saved>>
     ELSE /\ warned' = FALSE
          /\ SetActive(id, stacks[id][Len(stacks[id])])
          /\ stacks' = [stacks EXCEPT ![id] = SubSeq(@, 1, Len(@) - 1)]
          /\ saved' = [saved EXCEPT ![id] = SubSeq(@, 1, Len(@) - 1)]
          /\ UNCHANGED underflowed
  /\ last' = StackOp("pop", id, "-", DefaultImage)
  /\ nops' = nops + 1
  /\ ForgetApply
  /\ UNCHANGED <<current, live, driver, nreq, nresize, auxVars>>

\* the operations of the context on its stacks
pushTexture(unit) == push(StackOf("texture", unit))
pushAndSetTexture(unit, texture) == pushAndSet(StackOf("texture", unit), texture)
popTexture(unit) == pop(StackOf("texture", unit))
pushBoundImage(unit) == push(StackOf("image", unit))
pushAndSetBoundImage(unit, iParam) == pushAndSet(StackOf("image", unit), iParam)
popBoundImage(unit) == pop(StackOf("image", unit))
pushViewport == push(StackOf("viewport", 0))
pushAndSetViewport(viewport) == pushAndSet(StackOf("viewport", 0), viewport)
setViewport(viewport) == set(StackOf("viewport", 0), viewport)
popViewport == pop(StackOf("viewport", 0))
pushBlending == push(StackOf("blending", 0))
pushAndSetBlending(blendingParameter) == pushAndSet(StackOf("blending", 0), blendingParameter)
setBlending(blendingParameter) == set(StackOf("blending", 0), blendingParameter)
popBlending == pop(StackOf("blending", 0))

\* RenderingContext::applyChanges(forced): the diff of current against
\* target, applied to the target snapshot, which then becomes current; an
\* exception of makeDiff ends the call before anything is applied
applyChanges(forced) ==
  \E order1 \in Orders(DOMAIN current.buffers),
     order2 \in Orders(DOMAIN target.buffers) :
    LET o == makeDiffOutcome(current, target, order1, order2)
        m == makeDiffRun(current, target, forced, live, order1, order2)
        d == m.diff
        r == apply(m.target, d, live)
    IN /\ IF o.raised
          THEN /\ pre' = NoPre
               /\ diff' = EmptyDiff
               /\ calls' = <<>>
               /\ events' = <<>>
               /\ streak' = 0
               /\ UNCHANGED <<current, target, driver>>
          ELSE /\ pre' = [valid |-> TRUE, current |-> current, target |-> target,
                          forced |-> forced]
               /\ diff' = d
               /\ calls' = m.calls \o r.calls
               /\ events' = applyEvents(m.target, d, live)
               /\ current' = r.snap
               /\ target' = r.snap
               /\ driver' = DriverCalls(driver, m.calls \o r.calls)
               /\ streak' = IF forced THEN 0 ELSE IF streak < 2 THEN streak + 1 ELSE 2
       /\ raised' = o.raised
       /\ warned' = o.warned
       /\ UNCHANGED <<live, nreq, nresize, stackVars, auxVars>>

Next ==
  \/ \E b \in BufferHandles, t \in RequestTargets, l \in Locations : bindBuffer(b, t, l)
  \/ \E t \in RequestTargets, l \in Locations : unbindBuffer(t, l)
  \/ \E u \in TexUnits, x \in TextureHandles \cup {NULL} : setTexture(u, x)
  \/ \E u \in ImgUnits, p \in RequestImages : setBoundImage(u, p)
  \/ \E b \in BufferHandles, e \in Extents : Resize(b, e)
  \/ \E f \in BOOLEAN : applyChanges(f)

Spec == Init /\ [][Next]_vars

\* a buffer target that is none of the recognised ones
UnknownTarget == "GL_TEXTURE_2D"

\* the binding points requested before the first reconciliation: recognised
\* targets, an unrecognised one and a location one past the last mask bit
PreloadKeys ==
  {BufferKey(GL_SHADER_STORAGE_BUFFER, 0), BufferKey(GL_SHADER_STORAGE_BUFFER, 1),
   BufferKey(GL_UNIFORM_BUFFER, 0), BufferKey(GL_ARRAY_BUFFER, 0),
   BufferKey(GL_ELEMENT_ARRAY_BUFFER, 0), BufferKey(UnknownTarget, 0),
   BufferKey(GL_SHADER_STORAGE_BUFFER, MaxLoc)}

PreloadImage == ImageBindParameters("T", 0, 0, FALSE, TRUE, TRUE)

\* the target snapshots a batch of requests leaves before the first
\* reconciliation
PreloadSnapshots ==
  {[buffers |-> [k \in K |-> BufferBinding("A", k[1], k[2], InitialExtent[1],
                                            InitialExtent[2])],
    textures |-> [u \in U |-> "T"],
    images |-> [u \in V |-> PreloadImage]] :
     K \in {X \in SUBSET PreloadKeys : Cardinality(X) <= MaxPreload},
     U \in {{}, {0}, TexUnits},
     V \in {{}, {0}, ImgUnits}}

\* the context after a batch of requests
InitApply ==
  /\ current = EmptyState
  /\ target \in PreloadSnapshots
  /\ live = [b \in BufferHandles |-> InitialExtent]
  /\ driver = EmptyState
  /\ pre = NoPre
  /\ diff = EmptyDiff
  /\ calls = <<>>
  /\ events = <<>>
  /\ streak = 0
  /\ nreq = 0
  /\ nresize = 0
  /\ raised = FALSE
  /\ warned = FALSE
  /\ stacks = [id \in StackIds |-> <<>>]
  /\ active = [c \in ParamCategories |-> InitialParam]
  /\ paramDriver = [c \in ParamCategories |-> InitialParam]
  /\ last = NoOp
  /\ saved = [id \in StackIds |-> <<>>]
  /\ nops = 0
  /\ underflowed = FALSE
  /\ layout = "little"
  /\ keyed = EmptyMap
  /\ pairs = {}
  /\ limit = 0
  /\ index = 0
  /\ seen = {}
  /\ revisited = FALSE
  /\ finished = TRUE
  /\ stage = "none"
  /\ code = ""
  /\ spirv = <<>>
  /\ handle = [valid |-> FALSE, module |-> <<>>]
  /\ path = "none"
  /\ ncompile = 0
  /\ shaderOp = "none"
  /\ resources = <<>>
  /\ diag = ""
  /\ uploaded = FALSE
  /\ accessors = [a \in 1 .. MaxAccessors |->
                    [state |-> "none", mapped |-> FALSE, unmapped |-> FALSE]]
  /\ bufferMaps = 0
  /\ bufferUnmaps = 0
  /\ nstatus = 0

\* reconciliation of a batch, then of an unbind request
NextApply ==
  \/ \E f \in BOOLEAN : applyChanges(f)
  \/ unbindBuffer(UnknownTarget, 0)

SpecApply == InitApply /\ [][NextApply]_vars

\* image parameters that differ from PreloadImage in one field each
ImageVariants ==
  {PreloadImage,
   [PreloadImage EXCEPT !.texture = "U"],
   [PreloadImage EXCEPT !.level = 1],
   [PreloadImage EXCEPT !.layer = 1],
   [PreloadImage EXCEPT !.multiLayer = TRUE],
   [PreloadImage EXCEPT !.read = FALSE],
   [PreloadImage EXCEPT !.write = FALSE]}

\* image requests and reconciliation
NextImage ==
  \/ \E u \in ImgUnits, p \in ImageVariants : setBoundImage(u, p)
  \/ \E f \in BOOLEAN : applyChanges(f)

SpecImage == Init /\ [][NextImage]_vars

\* a key is formed for (target, location), as bindOrRemoveBuffer does for
\* its lookup, and the pair is filed under it
formBufferKey(tgt, location) ==
  /\ Cardinality(pairs) < MaxKeys
  /\ <<tgt, location>> \notin pairs
  /\ LET key == bufferKey(tgt, location, layout)
     IN keyed' = MapSet(keyed, key,
                        (IF key \in DOMAIN keyed THEN keyed[key] ELSE {})
                          \cup {<<tgt, location>>})
  /\ pairs' = pairs \cup {<<tgt, location>>}
  /\ UNCHANGED <<bindVars, stackVars, layout, loopVars, shaderVars, accessorVars>>

\* the context on a build of either byte order
InitKey ==
  /\ current = EmptyState
  /\ target = EmptyState
  /\ live = [b \in BufferHandles |-> InitialExtent]
  /\ driver = EmptyState
  /\ pre = NoPre
  /\ diff = EmptyDiff
  /\ calls = <<>>
  /\ events = <<>>
  /\ streak = 0
  /\ nreq = 0
  /\ nresize = 0
  /\ raised = FALSE
  /\ warned = FALSE
  /\ stacks = [id \in StackIds |-> <<>>]
  /\ active = [c \in ParamCategories |-> InitialParam]
  /\ paramDriver = [c \in ParamCategories |-> InitialParam]
  /\ last = NoOp
  /\ saved = [id \in StackIds |-> <<>>]
  /\ nops = 0
  /\ underflowed = FALSE
  /\ layout \in {"little", "big"}
  /\ keyed = EmptyMap
  /\ pairs = {}
  /\ limit = 0
  /\ index = 0
  /\ seen = {}
  /\ revisited = FALSE
  /\ finished = TRUE
  /\ stage = "none"
  /\ code = ""
  /\ spirv = <<>>
  /\ handle = [valid |-> FALSE, module |-> <<>>]
  /\ path = "none"
  /\ ncompile = 0
  /\ shaderOp = "none"
  /\ resources = <<>>
  /\ diag = ""
  /\ uploaded = FALSE
  /\ accessors = [a \in 1 .. MaxAccessors |->
                    [state |-> "none", mapped |-> FALSE, unmapped |-> FALSE]]
  /\ bufferMaps = 0
  /\ bufferUnmaps = 0
  /\ nstatus = 0

NextKey == \E t \in KeyWords, l \in KeyWords : formBufferKey(t, l)

SpecKey == InitKey /\ [][NextKey]_vars

\* the width of the loop counters of apply (uint_fast8_t taken as 8 bits)
CounterBits == 8

\* ++i on a counter of CounterBits bits
Increment(i) == (i + 1) % (2 ^ CounterBits)

\* the loop limits apply is run with: the size() of a mask or the maximum
\* number of texture or image bindings
LoopLimits == {0, 1, 2, MaxLimit - 1, MaxLimit}

\* one evaluation of the loop condition of
\* for(uint_fast8_t i = 0; i < limit; ++i): the body and ++i when it
\* holds (the comparison is made in the wider type of the limit), the end
\* of the loop when it does not
loopStep ==
  /\ ~finished
  /\ IF index < limit
     THEN /\ seen' = seen \cup {index}
          /\ revisited' = (revisited \/ index \in seen)
          /\ index' = Increment(index)
          /\ UNCHANGED finished
     ELSE /\ finished' = TRUE
          /\ UNCHANGED <<index, seen, revisited>>
  /\ UNCHANGED <<limit, bindVars, stackVars, keyVars, shaderVars,
               accessorVars>>

\* a loop of apply at its start, for each of the limits
InitLoop ==
  /\ current = EmptyState
  /\ target = EmptyState
  /\ live = [b \in BufferHandles |-> InitialExtent]
  /\ driver = EmptyState
  /\ pre = NoPre
  /\ diff = EmptyDiff
  /\ calls = <<>>
  /\ events = <<>>
  /\ streak = 0
  /\ nreq = 0
  /\ nresize = 0
  /\ raised = FALSE
  /\ warned = FALSE
  /\ stacks = [id \in StackIds |-> <<>>]
  /\ active = [c \in ParamCategories |-> InitialParam]
  /\ paramDriver = [c \in ParamCategories |-> InitialParam]
  /\ last = NoOp
  /\ saved = [id \in StackIds |-> <<>>]
  /\ nops = 0
  /\ underflowed = FALSE
  /\ layout = "little"
  /\ keyed = EmptyMap
  /\ pairs = {}
  /\ limit \in LoopLimits
  /\ index = 0
  /\ seen = {}
  /\ revisited = FALSE
  /\ finished = FALSE
  /\ stage = "none"
  /\ code = ""
  /\ spirv = <<>>
  /\ handle = [valid |-> FALSE, module |-> <<>>]
  /\ path = "none"
  /\ ncompile = 0
  /\ shaderOp = "none"
  /\ resources = <<>>
  /\ diag = ""
  /\ uploaded = FALSE
  /\ accessors = [a \in 1 .. MaxAccessors |->
                    [state |-> "none", mapped |-> FALSE, unmapped |-> FALSE]]
  /\ bufferMaps = 0
  /\ bufferUnmaps = 0
  /\ nstatus = 0

NextLoop == loopStep

\* the loop runs on: a step that can be taken is taken
SpecLoop == InitLoop /\ [][NextLoop]_vars /\ WF_vars(NextLoop)

\* ------------------------------------------------------ ShaderObjectInfo
\* the stages of the create functions
CreateStages == {"Vertex", "Fragment", "Geometry", "Compute"}

\* GLSL sources: the empty string, two that compile and one that does not
GlslSources == {"", "good", "good2", "bad"}

\* SPIR-V vectors handed to the create functions
SpirvVectors == {<<>>, <<1>>, <<1, 2>>, <<7, 8, 9>>}

\* shaderc's CompileGlslToSpv: the status and, on success, the words
CompileGlslToSpv(source, kind) ==
  CASE source = "good" -> [status |-> "success", words |-> <<3, 4>>]
    [] source = "good2" -> [status |-> "success", words |-> <<5>>]
    [] OTHER -> [status |-> "error", words |-> <<>>]

\* vkDevice.createShaderModule over the words: the module handle
createShaderModule(words) == [valid |-> TRUE, module |-> words]

\* the null ShaderModuleHandle
NullModule == [valid |-> FALSE, module |-> <<>>]

\* ShaderObjectInfo(stage, _code), through createVertex(code) and the like
createFromCode(st, _code) ==
  /\ stage = "none"
  /\ stage' = st
  /\ code' = _code
  /\ spirv' = <<>>
  /\ shaderOp' = "create"
  /\ UNCHANGED <<handle, path, ncompile, resources, diag>>
  /\ UNCHANGED <<bindVars, stackVars, keyVars, loopVars, accessorVars>>

\* ShaderObjectInfo(stage, _spirv), through createVertex(spirv) and the
\* like: code stays default-constructed, the empty string
createFromSpirv(st, _spirv) ==
  /\ stage = "none"
  /\ stage' = st
  /\ code' = ""
  /\ spirv' = _spirv
  /\ shaderOp' = "create"
  /\ UNCHANGED <<handle, path, ncompile, resources, diag>>
  /\ UNCHANGED <<bindVars, stackVars, keyVars, loopVars, accessorVars>>

\* compile that clears the stored SPIR-V when the code is empty
compile_ClearOnEmpty ==
  /\ stage # "none"
  /\ ncompile < MaxCompiles
  /\ ncompile' = ncompile + 1
  /\ shaderOp' = "compile"
  /\ IF code = ""
     THEN /\ handle' = NullModule
          /\ path' = "empty code"
          /\ diag' = "Cannot compile empty code"
          /\ spirv' = <<>>
     ELSE IF spirv # <<>>
     THEN /\ handle' = createShaderModule(spirv)
          /\ path' = "stored"
          /\ diag' = ""
          /\ UNCHANGED spirv
     ELSE LET result == CompileGlslToSpv(code, stage)
          IN IF result.status # "success"
             THEN /\ handle' = NullModule
                  /\ path' = "compile error"
                  /\ diag' = "Shader compile error"
                  /\ UNCHANGED spirv
             ELSE /\ spirv' = result.words
                  /\ handle' = createShaderModule(result.words)
                  /\ path' = "compiled"
                  /\ diag' = ""
  /\ UNCHANGED <<stage, code, resources>>
  /\ UNCHANGED <<bindVars, stackVars, keyVars, loopVars, accessorVars>>

\* ShaderObjectInfo::compile(device)
compile ==
  /\ stage # "none"
  /\ ncompile < MaxCompiles
  /\ ncompile' = ncompile + 1
  /\ shaderOp' = "compile"
  /\ IF code = ""
     THEN /\ handle' = NullModule
          /\ path' = "empty code"
          /\ diag' = "Cannot compile empty code"
          /\ UNCHANGED spirv
     ELSE IF spirv # <<>>
     THEN /\ handle' = createShaderModule(spirv)
          /\ path' = "stored"
          /\ diag' = ""
          /\ UNCHANGED spirv
     ELSE LET result == CompileGlslToSpv(code, stage)
          IN IF result.status # "success"
             THEN /\ handle' = NullModule
                  /\ path' = "compile error"
                  /\ diag' = "Shader compile error"
                  /\ UNCHANGED spirv
             ELSE /\ spirv' = result.words
                  /\ handle' = createShaderModule(result.words)
                  /\ path' = "compiled"
                  /\ diag' = ""
  /\ UNCHANGED <<stage, code, resources>>
  /\ UNCHANGED <<bindVars, stackVars, keyVars, loopVars, accessorVars>>

\* spirv_cross reflection of the stored words: one resource for each word
ReflectResources(words, st) ==
  [i \in 1 .. Len(words) |-> [name |-> words[i], stages |-> st]]

\* ShaderObjectInfo::reflect()
reflect ==
  /\ stage # "none"
  /\ shaderOp' = "reflect"
  /\ IF spirv = <<>>
     THEN /\ diag' = "Cannot reflect shader code"
          /\ resources' = <<>>
     ELSE /\ diag' = ""
          /\ resources' = ReflectResources(spirv, stage)
  /\ UNCHANGED <<stage, code, spirv, handle, path, ncompile>>
  /\ UNCHANGED <<bindVars, stackVars, keyVars, loopVars, accessorVars>>

\* a shader object is made, compiled and reflected
NextShader ==
  \/ \E st \in CreateStages, c \in GlslSources : createFromCode(st, c)
  \/ \E st \in CreateStages, w \in SpirvVectors : createFromSpirv(st, w)
  \/ compile
  \/ reflect

SpecShader == Init /\ [][NextShader]_vars

-----------------------------------------------------------------------------
\* VertexAccessor: the accessor of a mesh's vertex data

AccessorIds == 1 .. MaxAccessors

\* VertexAccessor::VertexAccessor(vData, ptr)
VertexAccessor(_mapped) ==
  [state |-> "live", mapped |-> _mapped, unmapped |-> FALSE]

\* VertexAccessor::create(vData); ptr is the pointer that map() or data()
\* returns, valid or null
create(a, ptrValid) ==
  /\ accessors[a].state = "none"
  /\ bufferMaps' = IF uploaded /\ ptrValid THEN bufferMaps + 1 ELSE bufferMaps
  /\ accessors' = [accessors EXCEPT ![a] =
        IF ~ptrValid
          THEN [state |-> "null", mapped |-> FALSE, unmapped |-> FALSE]
          ELSE VertexAccessor(uploaded)]
  /\ UNCHANGED <<uploaded, bufferUnmaps, nstatus>>
  /\ UNCHANGED <<bindVars, stackVars, keyVars, loopVars, shaderVars>>

\* VertexAccessor::~VertexAccessor()
destroy(a) ==
  /\ accessors[a].state = "live"
  /\ accessors' = [accessors EXCEPT ![a].state = "destroyed",
                                    ![a].unmapped = uploaded]
  /\ bufferUnmaps' = IF uploaded THEN bufferUnmaps + 1 ELSE bufferUnmaps
  /\ UNCHANGED <<uploaded, bufferMaps, nstatus>>
  /\ UNCHANGED <<bindVars, stackVars, keyVars, loopVars, shaderVars>>

\* MeshVertexData::upload(): the vertex data moves to a buffer object
upload ==
  /\ ~uploaded
  /\ nstatus < MaxStatusChanges
  /\ uploaded' = TRUE
  /\ nstatus' = nstatus + 1
  /\ UNCHANGED <<accessors, bufferMaps, bufferUnmaps>>
  /\ UNCHANGED <<bindVars, stackVars, keyVars, loopVars, shaderVars>>

\* MeshVertexData::removeGlBuffer(): the buffer object is dropped
removeGlBuffer ==
  /\ uploaded
  /\ nstatus < MaxStatusChanges
  /\ uploaded' = FALSE
  /\ nstatus' = nstatus + 1
  /\ UNCHANGED <<accessors, bufferMaps, bufferUnmaps>>
  /\ UNCHANGED <<bindVars, stackVars, keyVars, loopVars, shaderVars>>

\* accessors are made and destroyed while the vertex data is uploaded and
\* released
NextAccessor ==
  \/ \E a \in AccessorIds, ptrValid \in BOOLEAN : create(a, ptrValid)
  \/ \E a \in AccessorIds : destroy(a)
  \/ upload
  \/ removeGlBuffer

SpecAccessor == Init /\ [][NextAccessor]_vars

\* the context used through its state stacks: the push, set and pop
\* operations of every category, and reconciliation
NextStack ==
  \/ \E u \in TexUnits : pushTexture(u)
  \/ \E u \in TexUnits, x \in TextureHandles \cup {NULL} : pushAndSetTexture(u, x)
  \/ \E u \in TexUnits : popTexture(u)
  \/ pushBoundImage(0)
  \/ \E p \in StackImages : pushAndSetBoundImage(0, p)
  \/ popBoundImage(0)
  \/ pushViewport
  \/ \E v \in ParamValues : pushAndSetViewport(v)
  \/ \E v \in ParamValues : setViewport(v)
  \/ popViewport
  \/ pushBlending
  \/ \E v \in ParamValues : pushAndSetBlending(v)
  \/ \E v \in ParamValues : setBlending(v)
  \/ popBlending
  \/ \E f \in BOOLEAN : applyChanges(f)

SpecStack == Init /\ [][NextStack]_vars

\* the binding categories: requests, their push and pop variants, and
\* reconciliation
NextRequest ==
  \/ bindBuffer("A", GL_SHADER_STORAGE_BUFFER, 0)
  \/ unbindBuffer(GL_SHADER_STORAGE_BUFFER, 0)
  \/ \E x \in TextureHandles \cup {NULL} : setTexture(0, x)
  \/ \E p \in StackImages : setBoundImage(0, p)
  \/ pushTexture(0)
  \/ \E x \in TextureHandles \cup {NULL} : pushAndSetTexture(0, x)
  \/ popTexture(0)
  \/ pushBoundImage(0)
  \/ \E p \in StackImages : pushAndSetBoundImage(0, p)
  \/ popBoundImage(0)
  \/ \E f \in BOOLEAN : applyChanges(f)

SpecRequest == Init /\ [][NextRequest]_vars

\* ------------------------------------------------------- claim vocabulary
\* the mask bit of a buffer key is set in d
KeyBit(d, key) ==
  CASE key[1] = GL_SHADER_STORAGE_BUFFER -> key[2] \in d.ssbos
    [] key[1] = GL_UNIFORM_BUFFER -> key[2] \in d.ubos
    [] key[1] = GL_ATOMIC_COUNTER_BUFFER -> key[2] \in d.acbos
    [] key[1] = GL_TRANSFORM_FEEDBACK_BUFFER -> key[2] \in d.tfbos
    [] OTHER -> getBufferTargetBit(key[1]) \in d.other

\* the mask with exactly the bit of a buffer key set
KeyMask(key) ==
  CASE key[1] = GL_SHADER_STORAGE_BUFFER -> [EmptyDiff EXCEPT !.ssbos = {key[2]}]
    [] key[1] = GL_UNIFORM_BUFFER -> [EmptyDiff EXCEPT !.ubos = {key[2]}]
    [] key[1] = GL_ATOMIC_COUNTER_BUFFER -> [EmptyDiff EXCEPT !.acbos = {key[2]}]
    [] key[1] = GL_TRANSFORM_FEEDBACK_BUFFER -> [EmptyDiff EXCEPT !.tfbos = {key[2]}]
    [] OTHER -> [EmptyDiff EXCEPT !.other = {getBufferTargetBit(key[1])}]

\* the buffer binding points the set bits of d stand for in apply
MaskBufferPoints(d) ==
  {BufferKey(GL_SHADER_STORAGE_BUFFER, i) : i \in d.ssbos}
  \cup {BufferKey(GL_UNIFORM_BUFFER, i) : i \in d.ubos}
  \cup {BufferKey(GL_ATOMIC_COUNTER_BUFFER, i) : i \in d.acbos}
  \cup {BufferKey(GL_TRANSFORM_FEEDBACK_BUFFER, i) : i \in d.tfbos}
  \cup {BufferKey(getBufferTargetFromBit(i), 0) : i \in d.other \ {UnknownTargetBit}}

\* positions in calls of the calls at one binding point
BufferCallsAt(key) ==
  {i \in 1 .. Len(calls) :
     calls[i].cat = "buffer" /\ calls[i].target = key[1] /\ calls[i].slot = key[2]}
UnitCallsAt(cat, unit) ==
  {i \in 1 .. Len(calls) : calls[i].cat = cat /\ calls[i].slot = unit}

BufferKeysOf(a, b) == (DOMAIN a.buffers) \cup (DOMAIN b.buffers)
TextureUnitsOf(a, b) == (DOMAIN a.textures) \cup (DOMAIN b.textures)
ImageUnitsOf(a, b) == (DOMAIN a.images) \cup (DOMAIN b.images)

\* some buffer binding of the snapshot is stale
AnyStale(state) ==
  \E k \in DOMAIN state.buffers : isChanged(state.buffers[k], live)

\* ------------------------------------------------------------------ claims
\* C1: after a non-forced applyChanges, every bind call that reached the
\* driver is for a binding point whose requested binding differs from the
\* current one or whose buffer binding is stale; an unchanged binding is
\* never re-bound.
C1_NoRedundantRebind ==
  (pre.valid /\ ~pre.forced) =>
    \A i \in 1 .. Len(calls) :
      calls[i].op = "bind" =>
        CASE calls[i].cat = "buffer" ->
               LET k == BufferKey(calls[i].target, calls[i].slot)
                   c == getBufferBinding(pre.current, k)
                   t == getBufferBinding(pre.target, k)
               IN BufferBindingNeq(c, t) \/ isChanged(c, live) \/ isChanged(t, live)
          [] calls[i].cat = "texture" ->
               getTexture(pre.current, calls[i].slot) # getTexture(pre.target, calls[i].slot)
          [] OTHER ->
               ImageNeq(getImage(pre.current, calls[i].slot),
                        getImage(pre.target, calls[i].slot))

\* C2: idempotence: the second of two applyChanges(false) with no request and
\* no resize between them issues no driver call.
C2_Idempotent == (streak = 2) => (calls = <<>>)

\* the driver holds at every binding point what the snapshot records there,
\* a null or absent entry meaning unbound
DriverAgrees ==
  /\ \A k \in BufferKeysOf(current, driver) :
        LET e == getBufferBinding(current, k)
        IN IF e.buffer = NULL THEN k \notin DOMAIN driver.buffers
           ELSE /\ k \in DOMAIN driver.buffers
                /\ driver.buffers[k] = [buffer |-> e.buffer, ext |-> <<e.offset, e.size>>]
  /\ \A u \in TextureUnitsOf(current, driver) :
        IF getTexture(current, u) = NULL THEN u \notin DOMAIN driver.textures
        ELSE u \in DOMAIN driver.textures /\ driver.textures[u] = current.textures[u]
  /\ \A u \in ImageUnitsOf(current, driver) :
        IF getImage(current, u).texture = NULL THEN u \notin DOMAIN driver.images
        ELSE u \in DOMAIN driver.images /\ driver.images[u] = current.images[u]

\* C3: with no external resize, directly after each applyChanges the driver
\* and the snapshot agree at every binding point.
C3_SnapshotMatchesDriver == (pre.valid /\ nresize = 0) => DriverAgrees

\* C4: forced completeness: applyChanges(true) sets the bit of every binding
\* point occupied in the current or the target snapshot and issues exactly
\* one driver call for each of them, and no call for any other point.
C4_ForcedComplete ==
  (pre.valid /\ pre.forced) =>
    /\ \A k \in BufferKeysOf(pre.current, pre.target) :
          KeyBit(diff, k) /\ Cardinality(BufferCallsAt(k)) = 1
    /\ \A u \in TextureUnitsOf(pre.current, pre.target) :
          u \in diff.textures /\ Cardinality(UnitCallsAt("texture", u)) = 1
    /\ \A u \in ImageUnitsOf(pre.current, pre.target) :
          u \in diff.images /\ Cardinality(UnitCallsAt("image", u)) = 1
    /\ \A i \in 1 .. Len(calls) :
          CASE calls[i].cat = "buffer" ->
                 BufferKey(calls[i].target, calls[i].slot)
                   \in BufferKeysOf(pre.current, pre.target)
            [] calls[i].cat = "texture" ->
                 calls[i].slot \in TextureUnitsOf(pre.current, pre.target)
            [] OTHER -> calls[i].slot \in ImageUnitsOf(pre.current, pre.target)

\* the keys at which the two snapshots of the last applyChanges differ, an
\* absent entry read as unbound
DifferingBufferKeys ==
  {k \in BufferKeysOf(pre.current, pre.target) :
     BufferBindingNeq(getBufferBinding(pre.current, k), getBufferBinding(pre.target, k))}
DifferingTextureUnits ==
  {u \in TextureUnitsOf(pre.current, pre.target) :
     getTexture(pre.current, u) # getTexture(pre.target, u)}
DifferingImageUnits ==
  {u \in ImageUnitsOf(pre.current, pre.target) :
     ImageNeq(getImage(pre.current, u), getImage(pre.target, u))}

\* the mask with exactly the bits of the differing keys set
DifferingMask ==
  IF DifferingBufferKeys # {}
  THEN KeyMask(CHOOSE k \in DifferingBufferKeys : TRUE)
  ELSE IF DifferingTextureUnits # {}
  THEN [EmptyDiff EXCEPT !.textures = DifferingTextureUnits]
  ELSE [EmptyDiff EXCEPT !.images = DifferingImageUnits]

\* C5: minimality: when target differs from current in exactly one key, no
\* binding is stale and forced is false, the mask has exactly the bit of
\* that key set and every other bit clear.
C5_Minimal ==
  (/\ pre.valid /\ ~pre.forced
   /\ ~AnyStale(pre.current) /\ ~AnyStale(pre.target)
   /\ Cardinality(DifferingBufferKeys) + Cardinality(DifferingTextureUnits)
        + Cardinality(DifferingImageUnits) = 1)
  => diff = DifferingMask

\* C6: staleness detection: a current buffer binding whose cached extent
\* differs from the live one, with the same handle requested at its key, has
\* its bit set by makeDiff(target, false).
C6_StaleDetected ==
  (pre.valid /\ ~pre.forced) =>
    \A k \in DOMAIN pre.current.buffers :
      (/\ isChanged(pre.current.buffers[k], live)
       /\ getBufferBinding(pre.target, k).buffer = pre.current.buffers[k].buffer)
      => KeyBit(diff, k)

\* C7: for every set bit whose binding in the applied snapshot is null or
\* absent, apply issues exactly one unbind at that binding point, and the
\* snapshot holds no entry for that key afterwards.
C7_NullIsUnbound ==
  pre.valid =>
    /\ \A k \in MaskBufferPoints(diff) :
          getBufferBinding(pre.target, k).buffer = NULL =>
            /\ Cardinality(BufferCallsAt(k)) = 1
            /\ \A i \in BufferCallsAt(k) : calls[i].op = "unbind"
            /\ k \notin DOMAIN current.buffers
    /\ \A u \in diff.textures :
          getTexture(pre.target, u) = NULL =>
            /\ Cardinality(UnitCallsAt("texture", u)) = 1
            /\ \A i \in UnitCallsAt("texture", u) : calls[i].op = "unbind"
            /\ u \notin DOMAIN current.textures
    /\ \A u \in diff.images :
          getImage(pre.target, u).texture = NULL =>
            /\ Cardinality(UnitCallsAt("image", u)) = 1
            /\ \A i \in UnitCallsAt("image", u) : calls[i].op = "unbind"
            /\ u \notin DOMAIN current.images

\* the live buffer bindings requested at indexed targets
IndexedLiveKeys(state) ==
  {k \in DOMAIN state.buffers :
     k[1] \in IndexedTargets /\ state.buffers[k].buffer # NULL}

C9_UnionOfScans ==
  pre.valid =>
    /\ \A k \in DOMAIN pre.current.buffers :
          (\/ pre.forced
           \/ isChanged(pre.current.buffers[k], live)
           \/ BufferBindingNeq(getBufferBinding(pre.target, k), pre.current.buffers[k]))
          => KeyBit(diff, k)
    /\ \A k \in DOMAIN pre.target.buffers :
          (\/ pre.forced
           \/ isChanged(pre.target.buffers[k], live)
           \/ BufferBindingNeq(getBufferBinding(pre.current, k), pre.target.buffers[k]))
          => KeyBit(diff, k)
    /\ \A u \in TextureUnitsOf(pre.current, pre.target) :
          (pre.forced \/ getTexture(pre.current, u) # getTexture(pre.target, u))
          => u \in diff.textures
    /\ \A u \in ImageUnitsOf(pre.current, pre.target) :
          (pre.forced \/ ImageNeq(getImage(pre.current, u), getImage(pre.target, u)))
          => u \in diff.images

\* C10: apply issues a driver call only for a binding point whose bit is set
\* in the mask, and every entry of the applied snapshot whose bit is clear
\* is still there afterwards with the same handle and cached extent.
C10_ApplyFrame ==
  pre.valid =>
    /\ \A i \in 1 .. Len(calls) :
          CASE calls[i].cat = "buffer" ->
                 KeyBit(diff, BufferKey(calls[i].target, calls[i].slot))
            [] calls[i].cat = "texture" -> calls[i].slot \in diff.textures
            [] OTHER -> calls[i].slot \in diff.images
    /\ \A k \in DOMAIN pre.target.buffers :
          ~KeyBit(diff, k) =>
            k \in DOMAIN current.buffers /\ current.buffers[k] = pre.target.buffers[k]
    /\ \A u \in DOMAIN pre.target.textures :
          u \notin diff.textures =>
            u \in DOMAIN current.textures /\ current.textures[u] = pre.target.textures[u]
    /\ \A u \in DOMAIN pre.target.images :
          u \notin diff.images =>
            u \in DOMAIN current.images /\ current.images[u] = pre.target.images[u]

\* an applyChanges that issued a call and passed over an entry whose bit is
\* clear
C10_Witness ==
  /\ pre.valid
  /\ Len(calls) > 0
  /\ \E k \in DOMAIN pre.target.buffers :
        ~KeyBit(diff, k) /\ pre.target.buffers[k].buffer # NULL

\* the place of a driver call in the order of apply: the loop that issues it
\* and the index that loop is at
CallClass(c) ==
  CASE c.cat = "texture" -> 6
    [] c.cat = "image" -> 7
    [] c.target = GL_SHADER_STORAGE_BUFFER -> 1
    [] c.target = GL_UNIFORM_BUFFER -> 2
    [] c.target = GL_ATOMIC_COUNTER_BUFFER -> 3
    [] c.target = GL_TRANSFORM_FEEDBACK_BUFFER -> 4
    [] OTHER -> 5
CallIndex(c) ==
  IF CallClass(c) = 5 THEN getBufferTargetBit(c.target) ELSE c.slot

\* C11: the driver calls of one apply are in a fixed order: the buffer calls
\* (storage, uniform, atomic-counter, transform-feedback, then the other
\* targets) before the texture calls, the texture calls before the image
\* calls, and within each of these in ascending slot index.
C11_CallOrder ==
  \A i, j \in 1 .. Len(calls) :
    i < j =>
      \/ CallClass(calls[i]) < CallClass(calls[j])
      \/ /\ CallClass(calls[i]) = CallClass(calls[j])
         /\ CallIndex(calls[i]) < CallIndex(calls[j])

\* an apply that issued two storage-buffer calls, two texture calls and two
\* image calls
C11_Witness ==
  /\ pre.valid
  /\ Len(calls) = 6
  /\ CallClass(calls[1]) = 1 /\ CallClass(calls[2]) = 1
  /\ CallClass(calls[3]) = 6 /\ CallClass(calls[4]) = 6
  /\ CallClass(calls[5]) = 7 /\ CallClass(calls[6]) = 7

\* a step that is the stack operation op on the stack id
StackStep(op, id) ==
  nops' = nops + 1 /\ last'.op = op /\ last'.id = id

\* the active value of a stack's category after the step
ActiveNext(id) == ActiveIn(target', active', id)

\* C12: stack correctness: every pop that finds a matching push restores as
\* active the value that was active immediately before that push, whatever
\* was set in between, so that when pushes and pops balance the active value
\* is the one held before the first push.
C12_StackCorrectness ==
  [][\A id \in StackIds :
       (StackStep("pop", id) /\ stacks[id] # <<>>) =>
         /\ ActiveNext(id) = saved[id][Len(saved[id])]
         /\ Len(stacks'[id]) = Len(stacks[id]) - 1]_vars

\* texture T was pushed-and-set on unit 0 over the null texture and applied,
\* and the pop has made the null texture the requested one again
C12_Witness ==
  /\ last.op = "pop" /\ last.id = StackOf("texture", 0)
  /\ nops = 2
  /\ pre = NoPre
  /\ stacks[StackOf("texture", 0)] = <<>>
  /\ 0 \in DOMAIN driver.textures /\ driver.textures[0] = "T"
  /\ getTexture(target, 0) = NULL

\* every operation of the context can be called in this state (up to the
\* bounds of the model)
AcceptsCalls ==
  /\ \A f \in BOOLEAN : ENABLED applyChanges(f)
  /\ nops < MaxStackOps =>
        \A id \in StackIds :
          /\ ENABLED pop(id)
          /\ id[1] \in ParamCategories => \A v \in ValuesOf(id) : ENABLED set(id, v)
          /\ Len(stacks[id]) < MaxDepth =>
                /\ ENABLED push(id)
                /\ \A v \in ValuesOf(id) : ENABLED pushAndSet(id, v)

C15_Isolation ==
  [][nops' = nops + 1 =>
       \A id \in StackIds \ {last'.id} :
         stacks'[id] = stacks[id] /\ ActiveNext(id) = Active(id)]_vars

\* a pop on texture unit 0 while unit 1 holds a pushed value and a
\* requested texture of its own
C15_Witness ==
  /\ last.op = "pop" /\ last.id = StackOf("texture", 0)
  /\ pre = NoPre
  /\ ~warned
  /\ stacks[StackOf("texture", 1)] = <<NULL>>
  /\ getTexture(target, 1) = "T"
  /\ getTexture(target, 0) = NULL

\* C16: a request on a binding category (bindBuffer, unbindBuffer,
\* setTexture, setBoundImage and their push and pop variants) changes the
\* target snapshot only: the driver's bindings and the current snapshot
\* change, and driver calls are issued, only in a step of applyChanges.
C16_RequestsDeferred ==
  [][(nreq' = nreq + 1 \/ nops' = nops + 1) =>
       /\ driver' = driver
       /\ current' = current
       /\ calls' = <<>>]_vars

\* after a bind request and a pushAndSet the target snapshot holds both,
\* the driver nothing
C16_Witness ==
  /\ nreq >= 1 /\ nops >= 1
  /\ last.op = "pushAndSet" /\ last.id = StackOf("texture", 0)
  /\ pre = NoPre
  /\ driver = EmptyState
  /\ getTexture(target, 0) = "T"
  /\ getBufferBinding(target, BufferKey(GL_SHADER_STORAGE_BUFFER, 0)).buffer = "A"

\* the buffer targets that have a mask or a mask bit of their own
RecognisedTargets ==
  IndexedTargets \cup {getBufferTargetFromBit(i) : i \in 0 .. (UnknownTargetBit - 1)}

\* the snapshot holds a binding whose buffer target is not recognised
HasUnknown(state) ==
  \E k \in DOMAIN state.buffers : k[1] \notin RecognisedTargets

\* the snapshot without its bindings at unrecognised targets
WithoutUnknown(state) ==
  [state EXCEPT !.buffers =
     [k \in {x \in DOMAIN state.buffers : x[1] \in RecognisedTargets} |->
        state.buffers[k]]]

\* some binding of the two snapshots has a slot outside its mask
OutOfRange(cur, tgt) ==
  \/ \E k \in BufferKeysOf(cur, tgt) : k[1] \in IndexedTargets /\ k[2] >= MaxLoc
  \/ \E u \in TextureUnitsOf(cur, tgt) : u >= MaxTexUnit
  \/ \E u \in ImageUnitsOf(cur, tgt) : u >= MaxImgUnit

\* the call sequences applyChanges(forced) can issue from the two snapshots
CallsOf(cur, tgt, forced) ==
  {apply(tgt, makeDiff(cur, tgt, forced, live, o1, o2), live).calls :
     o1 \in Orders(DOMAIN cur.buffers), o2 \in Orders(DOMAIN tgt.buffers)}

\* C17: a binding at an unrecognised buffer target gets the sentinel index
\* 10 from getBufferTargetBit, with a warning; makeDiff and apply complete
\* with such a binding present (no exception comes from it), and the driver
\* calls issued are those issued when that binding is absent.
C17_UnknownTarget ==
  /\ getBufferTargetBit(UnknownTarget) = UnknownTargetBit
  /\ raised => OutOfRange(current, target)
  /\ (pre.valid /\ (HasUnknown(pre.current) \/ HasUnknown(pre.target))) =>
        /\ warned
        /\ LET k == BufferKey(UnknownTarget, 0)
           IN (/\ k \in DOMAIN pre.target.buffers
               /\ BufferBindingNeq(getBufferBinding(pre.current, k),
                                   pre.target.buffers[k]))
              => UnknownTargetBit \in diff.other
        /\ \A i \in 1 .. Len(calls) : calls[i].target # UnknownTarget
        /\ calls \in CallsOf(WithoutUnknown(pre.current),
                              WithoutUnknown(pre.target), pre.forced)

\* a reconciliation with a new binding at an unrecognised target and a
\* binding at a recognised one, which got its call
C17_Witness ==
  /\ pre.valid /\ ~pre.forced
  /\ HasUnknown(pre.target) /\ ~HasUnknown(pre.current)
  /\ BufferKey(GL_ARRAY_BUFFER, 0) \in DOMAIN pre.target.buffers
  /\ Len(calls) = 1 /\ calls[1].target = GL_ARRAY_BUFFER
  /\ UnknownTargetBit \in diff.other
  /\ warned

\* C18: makeDiff and apply never raise an exception to their caller,
\* whatever the snapshots hold, a buffer, texture or image binding whose
\* slot index is at or beyond the width of its mask included.
C18_NoException == ~raised

\* the fields of image parameters in which a and b differ
ImageFields == {"texture", "level", "layer", "multiLayer", "read", "write"}
FieldsDiffering(a, b) == {f \in ImageFields : a[f] # b[f]}

\* C19: two image bindings on one unit are equal only if texture, level,
\* layer, multi-layer flag and read/write access all match: when the
\* requested binding of a unit differs from the current one in any of them,
\* the unit's bit is set in the images mask and applyChanges(false) issues
\* one image bind at that unit with the requested parameters; when none
\* differs, no bit and no call.
C19_ImageEquality ==
  (pre.valid /\ ~pre.forced) =>
    \A u \in (DOMAIN pre.current.images) \cap (DOMAIN pre.target.images) :
      LET c == pre.current.images[u]
          t == pre.target.images[u]
      IN IF FieldsDiffering(c, t) # {}
         THEN /\ u \in diff.images
              /\ Cardinality(UnitCallsAt("image", u)) = 1
              /\ \A i \in UnitCallsAt("image", u) :
                    /\ calls[i].op = "bind"
                    /\ calls[i].res = t.texture
                    /\ calls[i].img = t
                    /\ calls[i].target = getImageAccess(t)
         ELSE u \notin diff.images /\ UnitCallsAt("image", u) = {}

\* a reconciliation of an image unit whose requested binding differs from
\* the current one in the multi-layer flag only, and which was re-bound
C19_Witness ==
  /\ pre.valid /\ ~pre.forced
  /\ 0 \in DOMAIN pre.current.images
  /\ FieldsDiffering(pre.current.images[0], getImage(pre.target, 0)) = {"multiLayer"}
  /\ Len(calls) = 1 /\ calls[1].op = "bind" /\ calls[1].img.multiLayer

\* C20: packing a (target, location) pair into the 64-bit key is lossless
\* and injective: every key reads back as the one pair it was formed from,
\* and distinct pairs have distinct keys, so that a map keyed by it holds
\* one entry per (target, location).
C20_KeyPacking ==
  /\ \A key \in DOMAIN keyed :
        /\ Cardinality(keyed[key]) = 1
        /\ bufferKeyFields(key, layout) \in keyed[key]
  /\ Cardinality(DOMAIN keyed) = Cardinality(pairs)

\* two pairs with target and location swapped, and so with the same bytes
\* in different halves, have two keys
C20_Witness ==
  /\ pairs = {<<34962, 256>>, <<256, 34962>>}
  /\ Cardinality(DOMAIN keyed) = 2
  /\ layout = "big"

\* C21: every live buffer that apply binds has its cached offset and size
\* set to the live ones, so that directly after an applyChanges no buffer
\* binding of the snapshot is stale, and the applyChanges(false) after the
\* one that followed a resize issues no bind.
C21_RefreshOnBind ==
  pre.valid =>
    /\ \A i \in 1 .. Len(calls) :
          (calls[i].cat = "buffer" /\ calls[i].op = "bind") =>
            LET k == BufferKey(calls[i].target, calls[i].slot)
            IN /\ k \in DOMAIN current.buffers
               /\ ~isChanged(current.buffers[k], live)
    /\ ~AnyStale(current)
    /\ streak = 2 => \A i \in 1 .. Len(calls) : calls[i].op # "bind"

\* the handle the snapshot handed to apply holds at the point of a call
HandleAt(state, c) ==
  CASE c.cat = "buffer" -> getBufferBinding(state, BufferKey(c.target, c.slot)).buffer
    [] c.cat = "texture" -> getTexture(state, c.slot)
    [] OTHER -> getImage(state, c.slot).texture

\* C22: apply issues no bind with a null resource: every bind carries the
\* non-null handle the snapshot holds at its binding point, and a binding
\* point whose handle is null gets an unbind instead.
C22_NoNullBind ==
  pre.valid =>
    \A i \in 1 .. Len(calls) :
      IF HandleAt(pre.target, calls[i]) = NULL
      THEN calls[i].op = "unbind" /\ calls[i].res = NULL
      ELSE /\ calls[i].op = "bind"
           /\ calls[i].res # NULL
           /\ calls[i].res = HandleAt(pre.target, calls[i])

\* an apply that bound a buffer and, for a null texture request, issued an
\* unbind
C22_Witness ==
  /\ pre.valid
  /\ Len(calls) = 2
  /\ calls[1].cat = "buffer" /\ calls[1].op = "bind"
  /\ calls[2].cat = "texture" /\ calls[2].op = "unbind"
  /\ getTexture(pre.target, calls[2].slot) = NULL
  /\ calls[2].slot \in DOMAIN pre.target.textures

\* the buffer keys, texture units and image units that hold a live resource
\* in snapshot a and are absent from snapshot b
BufferKeysOnlyIn(a, b) ==
  {k \in (DOMAIN a.buffers) \ (DOMAIN b.buffers) : a.buffers[k].buffer # NULL}
TextureUnitsOnlyIn(a, b) ==
  {u \in (DOMAIN a.textures) \ (DOMAIN b.textures) : a.textures[u] # NULL}
ImageUnitsOnlyIn(a, b) ==
  {u \in (DOMAIN a.images) \ (DOMAIN b.images) : a.images[u].texture # NULL}

\* C23: with forced = false, a key that holds a live resource in exactly one
\* of the two snapshots and is absent from the other has its bit set by
\* makeDiff.
C23_BidirectionalDiff ==
  (pre.valid /\ ~pre.forced) =>
    /\ \A k \in BufferKeysOnlyIn(pre.target, pre.current)
                  \cup BufferKeysOnlyIn(pre.current, pre.target) : KeyBit(diff, k)
    /\ \A u \in TextureUnitsOnlyIn(pre.target, pre.current)
                  \cup TextureUnitsOnlyIn(pre.current, pre.target) : u \in diff.textures
    /\ \A u \in ImageUnitsOnlyIn(pre.target, pre.current)
                  \cup ImageUnitsOnlyIn(pre.current, pre.target) : u \in diff.images

\* the recognised buffer targets that share the other mask
OtherTargets == RecognisedTargets \ IndexedTargets

\* the keys of buffer target t whose binding the last applyChanges found
\* dirty: forced, stale or different between the two snapshots
DirtyKeysOf(t) ==
  {k \in BufferKeysOf(pre.current, pre.target) :
     /\ k[1] = t
     /\ \/ pre.forced
        \/ BufferBindingNeq(getBufferBinding(pre.current, k),
                            getBufferBinding(pre.target, k))
        \/ isChanged(getBufferBinding(pre.current, k), live)
        \/ isChanged(getBufferBinding(pre.target, k), live)}

DirtyOtherTargets == {t \in OtherTargets : DirtyKeysOf(t) # {}}

\* C24: per-target isolation in the other mask: when several recognised
\* other-class buffer targets are dirty in one reconciliation, each dirty
\* binding of each of them gets one call, a bind of its own buffer or an
\* unbind at its own binding point, and an other-class target that is not
\* dirty gets no call.
C24_OtherTargetIsolation ==
  (pre.valid /\ Cardinality(DirtyOtherTargets) >= 2) =>
    \A t \in OtherTargets :
      IF t \in DirtyOtherTargets
      THEN \A k \in DirtyKeysOf(t) :
             /\ Cardinality(BufferCallsAt(k)) = 1
             /\ \A i \in BufferCallsAt(k) :
                   calls[i].res = getBufferBinding(pre.target, k).buffer
      ELSE \A i \in 1 .. Len(calls) : calls[i].target # t

\* the masks makeDiff can return for the two snapshots, over the orders in
\* which the hash maps can enumerate their entries
MasksOf(cur, tgt, forced) ==
  {makeDiff(cur, tgt, forced, live, o1, o2) :
     o1 \in Orders(DOMAIN cur.buffers), o2 \in Orders(DOMAIN tgt.buffers)}

\* C25: makeDiff is deterministic in the contents of the snapshots: the
\* mask is the same whatever order the hash maps enumerate their entries
\* in, also when several bindings share a bit of the other mask.
C25_DiffDeterministic ==
  pre.valid => MasksOf(pre.current, pre.target, pre.forced) = {diff}

\* the snapshot holds an entry whose resource handle is null
HasNullEntry(state) ==
  \/ \E k \in DOMAIN state.buffers : state.buffers[k].buffer = NULL
  \/ \E u \in DOMAIN state.textures : state.textures[u] = NULL
  \/ \E u \in DOMAIN state.images : state.images[u].texture = NULL

\* C26: directly after every applyChanges, forced or not, no category of
\* the snapshot holds an entry with a null handle: every null request has
\* been unbound and erased.
C26_NoNullEntries == pre.valid => ~HasNullEntry(current)

\* the positions of the probes and of the driver calls among the events
ProbesIn(ev) == {i \in 1 .. Len(ev) : ev[i] = GET_GL_ERROR}
CallsIn(ev) == (1 .. Len(ev)) \ ProbesIn(ev)
IsCall(e) == e # GET_GL_ERROR

\* C27: in apply an error probe runs before the first driver call and
\* again after the batch of every category that issued calls: no two calls
\* of different categories are without a probe between them, and after
\* every call the next probe comes before any call of another category.
C27_ProbesBracket ==
  pre.valid =>
    /\ events # <<>> /\ events[1] = GET_GL_ERROR
    /\ SelectSeq(events, IsCall) = calls
    /\ \A i, j \in CallsIn(events) :
          (i < j /\ CallClass(events[i]) # CallClass(events[j])) =>
            \E k \in ProbesIn(events) : i < k /\ k < j
    /\ \A i \in CallsIn(events) : \E k \in ProbesIn(events) : i < k

\* an apply with calls in three categories: the probe, two storage-buffer
\* calls, a probe, two texture calls, a probe, two image calls, a probe
C27_Witness ==
  /\ pre.valid
  /\ Len(events) = 10
  /\ ProbesIn(events) = {1, 4, 7, 10}
  /\ CallClass(events[2]) = 1 /\ CallClass(events[5]) = 6 /\ CallClass(events[8]) = 7

\* C28: every loop of apply terminates, having run its body at most once
\* for each slot index, whatever its limit, with loop counters of 8 bits.
C28_LoopsTerminate == <>finished /\ []~revisited

\* C29: makeDiff changes neither snapshot and issues no driver call: what
\* an applyChanges does to the snapshot and to the driver is what apply
\* does with the mask to the snapshot as it was requested, and with an
\* empty mask nothing changes, a stale cached extent included.
C29_DiffIsPure ==
  [][pre'.valid =>
       LET r == apply(target, diff', live)
       IN /\ current' = r.snap
          /\ target' = r.snap
          /\ calls' = r.calls
          /\ driver' = DriverCalls(driver, r.calls)
          /\ diff' = EmptyDiff =>
                (current' = target /\ driver' = driver /\ calls' = <<>>)]_vars

\* an applyChanges whose makeDiff saw a stale binding and returned an empty
\* mask: the binding is as stale as before and the driver got no call
C29_Witness ==
  /\ pre.valid
  /\ diff = EmptyDiff
  /\ AnyStale(pre.target)
  /\ current = pre.target
  /\ calls = <<>>

\* the returns of compile() that come after the GLSL compiler has run
CompilerPaths == {"compiled", "compile error"}

\* C30: compile() on a shader object that holds SPIR-V, supplied at
\* construction or left by an earlier successful compile, returns a module
\* built from that SPIR-V, does not invoke the GLSL compiler and leaves the
\* stored SPIR-V unchanged.
C30_CompileStoredSpirv ==
  [][(ncompile' = ncompile + 1 /\ spirv # <<>>) =>
       /\ handle' = createShaderModule(spirv)
       /\ path' \notin CompilerPaths
       /\ spirv' = spirv]_vars

\* the returns of compile() that report a failure
FailurePaths == {"empty code", "compile error"}

\* C31: a compile() that fails, for empty code or a compiler error, returns
\* a null module, with a warning, and leaves the stored SPIR-V unchanged;
\* reflect() with no SPIR-V stored returns an empty list with a warning,
\* before any compile and after any number of failed ones.
C31_FailuresLeaveState ==
  /\ [][(ncompile' = ncompile + 1 /\ handle' = NullModule) =>
          (path' \in FailurePaths /\ spirv' = spirv /\ diag' # "")]_vars
  /\ [][(ncompile' = ncompile + 1
          /\ (code = "" \/ (spirv = <<>>
                /\ CompileGlslToSpv(code, stage).status # "success"))) =>
          (handle' = NullModule /\ spirv' = spirv /\ diag' # "")]_vars
  /\ []((shaderOp = "reflect" /\ spirv = <<>>) =>
          (resources = <<>> /\ diag = "Cannot reflect shader code"))

\* a reflect() after two compiles that failed with a compiler error
C31_Witness ==
  /\ shaderOp = "reflect"
  /\ ncompile = 2
  /\ path = "compile error"
  /\ code = "bad"
  /\ spirv = <<>>
  /\ resources = <<>>
  /\ diag = "Cannot reflect shader code"

\* C32: over the lifetime of a VertexAccessor the buffer's map and unmap
\* calls are balanced: the destructor has unmapped the buffer exactly if
\* create() mapped it, whatever the uploaded status did in between, and a
\* create() that returned null has mapped and unmapped nothing.
C32_MapUnmapBalanced ==
  /\ \A a \in AccessorIds :
       /\ accessors[a].state = "destroyed" =>
            (accessors[a].unmapped <=> accessors[a].mapped)
       /\ accessors[a].state = "null" =>
            (~accessors[a].mapped /\ ~accessors[a].unmapped)
  /\ (\A a \in AccessorIds : accessors[a].state # "live") =>
       bufferUnmaps = bufferMaps

\* the ten targets that getBufferTargetBit recognises
TenTargets ==
  {GL_ARRAY_BUFFER, GL_COPY_READ_BUFFER, GL_COPY_WRITE_BUFFER,
   GL_DISPATCH_INDIRECT_BUFFER, GL_DRAW_INDIRECT_BUFFER,
   GL_ELEMENT_ARRAY_BUFFER, GL_PIXEL_PACK_BUFFER, GL_PIXEL_UNPACK_BUFFER,
   GL_QUERY_BUFFER, GL_TEXTURE_BUFFER}

\* the mask bits of the ten targets
TenBits == 0 .. (UnknownTargetBit - 1)

\* the calls of the last applyChanges for buffers of the other class
OtherCalls ==
  {i \in 1 .. Len(calls) :
     calls[i].cat = "buffer" /\ calls[i].target \notin IndexedTargets}

\* C33: getBufferTargetBit and getBufferTargetFromBit are inverse bijections
\* between the ten recognised other-class targets and the bits 0..9: each
\* round trip is the identity, no recognised target maps to the sentinel
\* bit 10, and each call apply issues for a bit names the target whose bit
\* it is.
C33_TargetBitBijection ==
  /\ Cardinality(TenTargets) = Cardinality(TenBits)
  /\ \A t \in TenTargets :
       /\ getBufferTargetBit(t) \in TenBits
       /\ getBufferTargetBit(t) # UnknownTargetBit
       /\ getBufferTargetFromBit(getBufferTargetBit(t)) = t
  /\ \A b \in TenBits :
       /\ getBufferTargetFromBit(b) \in TenTargets
       /\ getBufferTargetBit(getBufferTargetFromBit(b)) = b
  /\ \A i \in OtherCalls :
       /\ calls[i].target \in TenTargets
       /\ \E k \in DOMAIN pre.target.buffers \cup DOMAIN pre.current.buffers :
            /\ getBufferTargetBit(k[1]) \in TenBits
            /\ calls[i].target = k[1]

\* an apply that issued a call for each of two other-class targets
C33_Witness ==
  /\ pre.valid
  /\ \E i, j \in OtherCalls :
       /\ calls[i].target = GL_ARRAY_BUFFER
       /\ calls[j].target = GL_ELEMENT_ARRAY_BUFFER

====
